---- MODULE Spec2Model ----
(***************************************************************************)
(* A state-machine model of the ResonatorProcessor audio worklet           *)
(* (src/unnamed/part_009, lines 1-982) together with the message port of   *)
(* its wrapper node (src/resonator-node.js).                               *)
(*                                                                         *)
(* Numbers.  The processor computes in IEEE doubles and stores into        *)
(* Float32Array.  The model computes in fixed point: every real quantity   *)
(* (Hz, ms, gains, signal values, coefficients) is an integer count of     *)
(* 1/U, and every product and quotient is rounded to the nearest 1/U.      *)
(* cos, sin and exp are evaluated by rational approximations (Bhaskara,    *)
(* Pade).  The one non-finite value that a host can send and that the      *)
(* arithmetic propagates, NaN, is modelled as a reserved value with the    *)
(* propagation rules of JavaScript (Math.max, Math.min and every           *)
(* arithmetic operator yield NaN on a NaN operand, every comparison with   *)
(* NaN is false).                                                          *)
(***************************************************************************)
EXTENDS Integers, Sequences, FiniteSets, TLC

(***************************************************************************)
(* Bounds of the model.                                                    *)
(***************************************************************************)
\* capacity of the per-branch arrays (40 in the source)
MAX_BRANCHES == 2
\* samples per process() call (the render quantum, 128 in a browser)
Frames == 2
\* process() calls in a behaviour
MaxBlocks == 2
\* messages posted by the host in a behaviour
MaxPosts == 2

(***************************************************************************)
(* Fixed-point arithmetic with NaN.                                        *)
(***************************************************************************)
\* one unit of every real quantity is 1/U
U == 100 * 100
NaN == -(2147483647)
\* magnitude at which products saturate (stands for "larger than any clamp")
BIG == 2 * (1000 * 1000 * 1000)

IsNaN(x) == x = NaN
Abs(x) == IF x < 0 THEN -x ELSE x
Sgn(x) == IF x < 0 THEN -1 ELSE 1
\* n/d rounded to the nearest integer, halves away from zero (d > 0)
RDiv(n, d) ==
  IF n >= 0 THEN (2 * n + d) \div (2 * d) ELSE -((2 * (-n) + d) \div (2 * d))
Sat(x) == IF x > BIG THEN BIG ELSE IF x < -BIG THEN -BIG ELSE x

\* x + y for |x|, |y| <= BIG, saturating at BIG
SatAdd(x, y) ==
  IF x > 0 /\ y > BIG - x THEN BIG
  ELSE IF x < 0 /\ y < (-BIG) - x THEN -BIG
  ELSE x + y
FAdd(x, y) == IF IsNaN(x) \/ IsNaN(y) THEN NaN ELSE SatAdd(Sat(x), Sat(y))
FSub(x, y) == IF IsNaN(x) \/ IsNaN(y) THEN NaN ELSE SatAdd(Sat(x), -Sat(y))
\* x * y / den, rounded, saturating at BIG (0 < den <= U); both operands
\* are split so that no intermediate product leaves 32 bits
MulDiv(x, y, den) ==
  LET Split(ax, ay, s) ==
        IF ay = 0 \/ ax = 0 THEN 0
        ELSE IF ax \div den > BIG \div ay THEN s * BIG
        ELSE s * SatAdd((ax \div den) * ay,
                        (ax % den) * (ay \div den)
                          + RDiv((ax % den) * (ay % den), den))
  IN  Split(Abs(Sat(x)), Abs(Sat(y)), Sgn(x) * Sgn(y))
\* the product of two fixed-point numbers; the larger operand is split
FMul(x, y) ==
  IF IsNaN(x) \/ IsNaN(y) THEN NaN
  ELSE MulDiv(IF Abs(x) >= Abs(y) THEN x ELSE y,
              IF Abs(x) >= Abs(y) THEN y ELSE x, U)
\* Math.max and Math.min: NaN if either operand is NaN
FMax(x, y) == IF IsNaN(x) \/ IsNaN(y) THEN NaN ELSE IF x >= y THEN x ELSE y
FMin(x, y) == IF IsNaN(x) \/ IsNaN(y) THEN NaN ELSE IF x <= y THEN x ELSE y
\* x > y, x < y, x >= y, x === y in JavaScript: false on NaN
FGt(x, y) == ~IsNaN(x) /\ ~IsNaN(y) /\ x > y
FGe(x, y) == ~IsNaN(x) /\ ~IsNaN(y) /\ x >= y
FEq(x, y) == ~IsNaN(x) /\ ~IsNaN(y) /\ x = y
\* Math.abs(x - y) > eps
\* a change detection that never fires
FFarNever(x, y, eps) == FALSE
FFar(x, y, eps) ==
  ~IsNaN(x) /\ ~IsNaN(y) /\ (IF x >= y THEN x - y ELSE y - x) > eps

(***************************************************************************)
(* cos, sin, exp.  Angles are counted in 1/10000 of a turn.                *)
(***************************************************************************)
Turn == 100 * 100
\* Bhaskara: cos(2 pi q) ~ (1 - 16 q^2) / (1 + 4 q^2) for 0 <= q <= 1/4
CosQuarter(q) ==
  RDiv((100000000 - 16 * q * q) * 10, (100000000 + 4 * q * q) \div 1000)
CosTurn(t) ==
  LET Half(h) == IF h <= Turn \div 4 THEN CosQuarter(h)
                 ELSE -CosQuarter(Turn \div 2 - h)
  IN  Half(IF (t % Turn) > Turn \div 2 THEN Turn - (t % Turn)
           ELSE t % Turn)
SinTurn(t) == CosTurn(t - Turn \div 4)
\* Pade (2,2): exp(-x) ~ (12 - 6x + x^2) / (12 + 6x + x^2), 0 <= x <= 1/2
ExpPade(x) ==
  RDiv(120000000 - 6000 * x + (x * x) \div 10,
       RDiv(120000000 + 6000 * x + (x * x) \div 10, U))
\* exp(-x) for x >= 0 (x in units of 1/U), halving the argument until the
\* approximation applies; exp(-x) rounds to 0 beyond x = 20
RECURSIVE ExpNeg(_)
ExpNeg(x) ==
  IF x <= U \div 2 THEN ExpPade(x)
  ELSE IF x > 20 * U THEN 0
  ELSE MulDiv(ExpNeg(x \div 2), ExpNeg(x - x \div 2), U)

(***************************************************************************)
(* Program constants and pure helpers of the processor.                    *)
(***************************************************************************)
\* the host's sample rate, a multiple of 10 (AudioWorkletGlobalScope)
sampleRate == 48000
\* smoothing coefficients 0.0005, 0.0007, 0.0007 in units of 1/U
alphaFreq == 5
alphaAmp == 7
alphaMix == 7
MAX_LIMBS == 16
\* the dirty-check epsilon 0.1 (Hz or ms), the pan-gain epsilon 1e-3 and
\* the band-Q epsilon 1e-6 (below the resolution: any change counts)
Eps == U \div 10
PanEps == U \div 1000
\* 0.45 * sampleRate in units of 1/U
Nyq45 == (sampleRate \div 20) * 9 * U
Branches == 0 .. (MAX_BRANCHES - 1)

clamp(value, min, max) == FMax(min, FMin(max, value))

smoothToward(current, target, alpha) ==
  IF FEq(current, target) THEN current
  ELSE FAdd(current, FMul(FSub(target, current), alpha))

\* the angle 2 pi f / sampleRate of a frequency f, in 1/Turn of a turn
Omega(f) == RDiv(f, sampleRate)

\* updatePanGains: <<left, right>> from the smoothed pan
PanGains(smoothPanB) ==
  LET Gains(ang) == <<CosTurn(ang), SinTurn(ang)>>
      Of(pan) == IF IsNaN(pan) THEN <<NaN, NaN>>
                 ELSE Gains(RDiv(RDiv(pan + U, 2), 4))
  IN  Of(clamp(smoothPanB, -U, U))

\* 2 pi e 10^7 / (sampleRate / 10) and 12500 * 10^4 / (sampleRate / 10):
\* the numerators of bwrps and of the complex pole's exponent
BwNum == RDiv(170794684, sampleRate \div 10)
RadNum == RDiv(125000000, sampleRate \div 10)

\* recomputeCoefficients(index, effFreqHz, effDecayMs): the coefficients
recomputeCoefficients(effFreqHz, effDecayMs) ==
  LET fNaN == IsNaN(effFreqHz)
      dNaN == IsNaN(effDecayMs)
      Coefficients(b, c, radius, cosW, sinW) ==
        [two_a |-> FSub(U, FAdd(c, b)), two_b |-> b, two_c |-> c,
         c_r |-> radius,
         c_rcos |-> FMul(radius, cosW), c_rsin |-> FMul(radius, sinW)]
      Poles(bwrps, dms, cosW, sinW) ==
        Coefficients(
          FMul(FMul(2 * U, cosW),
               IF dNaN THEN NaN ELSE ExpNeg(RDiv(bwrps, 2))),
          IF dNaN THEN NaN ELSE -ExpNeg(bwrps),
          IF dNaN THEN NaN ELSE ExpNeg(RDiv(RadNum * 1000, dms)),
          cosW, sinW)
      Decay(dms) ==
        Poles(RDiv(BwNum * 1000, dms), dms,
              IF fNaN THEN NaN ELSE CosTurn(Omega(effFreqHz)),
              IF fNaN THEN NaN ELSE SinTurn(Omega(effFreqHz)))
  IN  Decay(IF dNaN THEN U ELSE IF effDecayMs < U THEN U ELSE effDecayMs)

\* recomputeBandpassCoefficientsNoise / ...Rain (identical bodies): the
\* normalised RBJ band-pass coefficients
recomputeBandpassCoefficients(centerHz, bandQ) ==
  LET Q == IF bandQ < U \div 2 THEN U \div 2 ELSE bandQ
      Normalised(b0, a0, alpha, cosw0) ==
        [b0 |-> RDiv(b0 * U, a0), b1 |-> 0,
         b2 |-> RDiv((-b0) * U, a0),
         a1 |-> RDiv((-2 * cosw0) * U, a0),
         a2 |-> RDiv((U - alpha) * U, a0)]
      Band(alpha, cosw0) ==
        Normalised(FMul(Q, alpha), U + alpha, alpha, cosw0)
      Centre(fc) ==
        IF IsNaN(fc)
        THEN [b0 |-> NaN, b1 |-> NaN, b2 |-> NaN, a1 |-> NaN, a2 |-> NaN]
        ELSE Band(RDiv(SinTurn(Omega(fc)) * U, 2 * Q), CosTurn(Omega(fc)))
  IN  Centre(FMax(U, FMin(Nyq45, centerHz)))

(***************************************************************************)
(* xorshift32 on a 32-bit state held as <<high 16 bits, low 16 bits>>.     *)
(***************************************************************************)
W16 == 256 * 256
RECURSIVE Xor16(_, _)
Xor16(x, y) ==
  IF x = 0 THEN y
  ELSE IF y = 0 THEN x
  ELSE 2 * Xor16(x \div 2, y \div 2) + (((x % 2) + (y % 2)) % 2)
Xor32(p, q) == <<Xor16(p[1], q[1]), Xor16(p[2], q[2])>>
Shl32(p, k) ==
  LET m == 2 ^ k
  IN  <<(((p[1] * m) % W16) + ((p[2] * m) \div W16)) % W16, (p[2] * m) % W16>>
\* x >>> 17
Shr17(p) == <<0, p[1] \div 2>>
XorShift32(p) ==
  LET Third(x2) == Xor32(x2, Shl32(x2, 5))
      Second(x1) == Third(Xor32(x1, Shr17(x1)))
  IN  Second(Xor32(p, Shl32(p, 13)))
\* (0x9E3779B9 ^ (sr | 0)) >>> 0
RngSeed == Xor32(<<40503, 31161>>, <<sampleRate \div W16, sampleRate % W16>>)
\* rngState * 2^-32 in units of 1/U (rounded down, so it stays below 1)
RandOf(p) == (p[1] * U + (p[2] * U) \div W16) \div W16
\* nextSigned: nextRand() * 2 - 1
SignedOf(p) == 2 * RandOf(p) - U

(***************************************************************************)
(* Scale quantizer.  A frequency f has fractional MIDI number              *)
(* 69 + 12 log2(f / 440); Math.round of it is found by comparing f with    *)
(* the half-semitone boundaries 440 * 2^((j - 1/2) / 12).                  *)
(***************************************************************************)
\* 440 * 2^(j / 12), j = 0 .. 11, in units of 1/U
SemiTab ==
  <<4400000, 4661638, 4938833, 5232511, 5543653, 5873295,
    6222540, 6592551, 6984565, 7399888, 7839909, 8306094>>
\* 440 * 2^((j - 1/2) / 12), j = 0 .. 11: the lower boundary of semitone j
HalfTab ==
  <<4274741, 4528930, 4798234, 5083552, 5385836, 5706094,
    6045396, 6404874, 6785728, 7189228, 7616722, 8069636>>
\* the octave k (relative to the octave of A4) with
\* HalfTab[1] * 2^k <= f < HalfTab[1] * 2^(k+1), for f > 0
RECURSIVE OctOf(_)
OctOf(f) ==
  IF f < HalfTab[1] THEN OctOf(2 * f) - 1
  ELSE IF f >= 2 * HalfTab[1] THEN OctOf(f \div 2) + 1
  ELSE 0
\* Math.round(69 + 12 * Math.log2(f / 440)) for f > 0
MidiRound(f) ==
  LET AtLeast(j, k) == IF k >= 0 THEN f >= HalfTab[j] * (2 ^ k)
                       ELSE f * (2 ^ (-k)) >= HalfTab[j]
      Semitone(k) ==
        69 + 12 * k
          + (CHOOSE i \in 1 .. 12 :
               AtLeast(i, k) /\ (i = 12 \/ ~AtLeast(i + 1, k))) - 1
  IN  Semitone(OctOf(f))
\* 440 * Math.pow(2, (n - 69) / 12)
SemiFreq(n) ==
  LET k == (n - 69) \div 12
      j == (n - 69) % 12
  IN  IF k >= 0 THEN SemiTab[j + 1] * (2 ^ k)
      ELSE RDiv(SemiTab[j + 1], 2 ^ (-k))

quantize12TET(freqHz) ==
  IF IsNaN(freqHz) THEN NaN
  ELSE IF freqHz <= 0 THEN 0
  ELSE SemiFreq(MidiRound(freqHz))

InSeq(x, q) == \E i \in 1 .. Len(q) : q[i] = x

\* the first distance d in 0 .. 12 at which the search of quantizeToScale
\* finds an allowed pitch class, upward before downward; 13 if none
\* a search that took the next semitone up without looking at its class
ScaleSearchStep(roundMidi, pitchClasses, d) == roundMidi + 1
\* a search that looked downward before upward
RECURSIVE ScaleSearchDown(_, _, _)
ScaleSearchDown(roundMidi, pitchClasses, d) ==
  IF d > 12 THEN roundMidi
  ELSE IF InSeq((roundMidi - d) % 12, pitchClasses) THEN roundMidi - d
  ELSE IF InSeq((roundMidi + d) % 12, pitchClasses) THEN roundMidi + d
  ELSE ScaleSearchDown(roundMidi, pitchClasses, d + 1)
\* a search whose loop had no upper limit on d and left the octave
RECURSIVE ScaleSearchOn(_, _, _)
ScaleSearchOn(roundMidi, pitchClasses, d) ==
  IF d > 24 THEN roundMidi + d
  ELSE IF InSeq((roundMidi + d) % 12, pitchClasses) /\ d > 12
  THEN roundMidi + d
  ELSE ScaleSearchOn(roundMidi, pitchClasses, d + 1)
RECURSIVE ScaleSearch(_, _, _)
ScaleSearch(roundMidi, pitchClasses, d) ==
  IF d > 12 THEN roundMidi
  ELSE IF InSeq((roundMidi + d) % 12, pitchClasses) THEN roundMidi + d
  ELSE IF InSeq((roundMidi - d) % 12, pitchClasses) THEN roundMidi - d
  ELSE ScaleSearch(roundMidi, pitchClasses, d + 1)

quantizeToScale(freqHz, pitchClasses) ==
  IF ~FGt(freqHz, 0) THEN 0
  ELSE LET Nearest(roundMidi) ==
             IF InSeq(roundMidi % 12, pitchClasses) THEN roundMidi
             ELSE ScaleSearch(roundMidi, pitchClasses, 0)
       IN  SemiFreq(Nearest(MidiRound(freqHz)))

\* names that a lookup in an object literal finds on Object.prototype:
\* scales[scaleName] is then truthy and base.map is not a function, and
\* map[name] is a function, which root + iv turns into a string and % 12
\* into NaN
ProtoNames == {"constructor", "toString", "valueOf", "hasOwnProperty"}

noteNameToClass(name) ==
  CASE name \in {"C", "B#"} -> 0
    [] name \in {"C#", "Db"} -> 1
    [] name = "D" -> 2
    [] name \in {"D#", "Eb"} -> 3
    [] name \in {"E", "Fb"} -> 4
    [] name \in {"E#", "F"} -> 5
    [] name \in {"F#", "Gb"} -> 6
    [] name = "G" -> 7
    [] name \in {"G#", "Ab"} -> 8
    [] name = "A" -> 9
    [] name \in {"A#", "Bb"} -> 10
    [] name \in {"B", "Cb"} -> 11
    [] name \in ProtoNames -> NaN
    [] OTHER -> 9

ScaleNames ==
  {"chromatic", "major", "minor", "harmonicMinor", "melodicMinor",
   "dorian", "phrygian", "lydian", "mixolydian", "locrian",
   "pentatonicMajor", "pentatonicMinor", "blues", "wholeTone",
   "octatonic12", "octatonic21"}
scales(name) ==
  CASE name = "chromatic" -> <<0, 1, 2, 3, 4, 5, 6, 7, 8, 9, 10, 11>>
    [] name = "major" -> <<0, 2, 4, 5, 7, 9, 11>>
    [] name = "minor" -> <<0, 2, 3, 5, 7, 8, 10>>
    [] name = "harmonicMinor" -> <<0, 2, 3, 5, 7, 8, 11>>
    [] name = "melodicMinor" -> <<0, 2, 3, 5, 7, 9, 11>>
    [] name = "dorian" -> <<0, 2, 3, 5, 7, 9, 10>>
    [] name = "phrygian" -> <<0, 1, 3, 5, 7, 8, 10>>
    [] name = "lydian" -> <<0, 2, 4, 6, 7, 9, 11>>
    [] name = "mixolydian" -> <<0, 2, 4, 5, 7, 9, 10>>
    [] name = "locrian" -> <<0, 1, 3, 5, 6, 8, 10>>
    [] name = "pentatonicMajor" -> <<0, 2, 4, 7, 9>>
    [] name = "pentatonicMinor" -> <<0, 3, 5, 7, 10>>
    [] name = "blues" -> <<0, 3, 5, 6, 7, 10>>
    [] name = "wholeTone" -> <<0, 2, 4, 6, 8, 10>>
    [] name = "octatonic12" -> <<0, 1, 3, 4, 6, 7, 9, 10>>
    [] name = "octatonic21" -> <<0, 2, 3, 5, 6, 8, 9, 11>>

\* Array.from(new Set(pcs)).sort((a, b) => a - b)
RECURSIVE SortedSeq(_)
SortedSeq(S) ==
  IF S = {} THEN <<>>
  ELSE LET m == CHOOSE x \in S : \A y \in S : x <= y
       IN  <<m>> \o SortedSeq(S \ {m})

\* null is [null |-> TRUE]; an array is [null |-> FALSE, pcs |-> ...]
NullPcs == [null |-> TRUE, pcs |-> <<>>]
\* scaleName and rootName after the handler's (data.name || 'off') and
\* (data.root || 'A'): a missing name or root is the empty string here
computePitchClasses(scaleName, rootName) ==
  IF scaleName = "" \/ scaleName = "off" THEN NullPcs
  ELSE IF scaleName \notin ScaleNames THEN NullPcs
  ELSE LET root == noteNameToClass(IF rootName = "" THEN "A" ELSE rootName)
           base == scales(scaleName)
           pcs == {IF IsNaN(root) THEN NaN ELSE (root + base[i]) % 12 :
                     i \in 1 .. Len(base)}
       IN  [null |-> FALSE, pcs |-> SortedSeq(pcs)]

(***************************************************************************)
(* Number helpers of the render path.                                      *)
(***************************************************************************)
\* x || d
Or(x, d) == IF x = 0 \/ IsNaN(x) THEN d ELSE x
\* Math.round of a fixed-point number, as an integer (halves go up)
Round(x) == (x + U \div 2) \div U
\* x | 0 of a fixed-point number, as an integer
Trunc(x) == IF x >= 0 THEN x \div U ELSE -((-x) \div U)
Max(x, y) == IF x >= y THEN x ELSE y
Min(x, y) == IF x <= y THEN x ELSE y

\* -Math.log(u) for 0 < u <= 1: halvings, then 2 * atanh((1 - m) / (1 + m))
RECURSIVE NegLn(_)
NegLn(u) ==
  IF u < U \div 2 THEN NegLn(2 * u) + 6931
  ELSE LET Series(t, t2) ==
             2 * (t + RDiv(t2 * t, U) \div 3
                    + RDiv(RDiv(t2 * t, U) * t2, U) \div 5)
           Atanh(t) == Series(t, RDiv(t * t, U))
       IN  Atanh(RDiv((U - u) * U, U + u))
\* the integer square root, by bisection
RECURSIVE ISqrt(_, _, _)
ISqrt(n, lo, hi) ==
  IF hi - lo <= 1 THEN lo
  ELSE LET mid == (lo + hi) \div 2
       IN  IF mid * mid <= n THEN ISqrt(n, mid, hi) ELSE ISqrt(n, lo, mid)
\* Math.sqrt of a fixed-point number below 200
Sqrt(x) == ISqrt(x * 100, 0, 46000) * 10

\* nextRand(): the new rngState and the float in [0,1) it returns
nextRand(rng) ==
  LET Draw(x) == [rng |-> x, val |-> RandOf(x)] IN Draw(XorShift32(rng))
\* a signed draw that left the generator state as it was
nextSignedAside(rng) == [rng |-> rng, val |-> SignedOf(XorShift32(rng))]
\* nextSigned(): nextRand() * 2 - 1
nextSigned(rng) ==
  LET Draw(x) == [rng |-> x, val |-> SignedOf(x)] IN Draw(XorShift32(rng))

(***************************************************************************)
(* The AudioParams of parameterDescriptors, every one a fixed-point value  *)
(* within [minValue, maxValue]; a-rate parameters are constant over a      *)
(* block (arrays of length 1).                                             *)
(***************************************************************************)
DefaultParameters ==
  [nbranches |-> MAX_BRANCHES * U, noiseLevel |-> U \div 10,
   noiseType |-> 0, lfoEnabled |-> 0, lfoRate |-> 2 * U,
   lfoDepth |-> U \div 2, lfoWave |-> 0, rmix |-> U \div 2, quantize |-> 0,
   exciterCutoff |-> 4000 * U, exciterHP |-> 50 * U, groupEnabled |-> 0,
   groupSplit |-> 0, rainEnabled |-> 0, rainGain |-> (3 * U) \div 10,
   rainRate |-> 6 * U, rainDurMs |-> 8 * U, rainSpread |-> (4 * U) \div 10,
   rainCenter |-> U \div 2, rainLimbs |-> 5 * U, monitorExciter |-> 0,
   freqScale |-> U, octaves |-> 0, freqCenter |-> 0, decayScale |-> U,
   exciterBandQNoise |-> 25 * U, exciterBandQRain |-> 25 * U]

\* what process() computes once per call, before the sample loop
BlockLocals(p, prevQN, prevQR) ==
  LET bandQNoise == Or(p.exciterBandQNoise, 25 * U)
      bandQRain == Or(p.exciterBandQRain, 25 * U)
      bandQNoiseClamped == Max(U \div 2, Min(80 * U, bandQNoise))
      bandQRainClamped == Max(U \div 2, Min(80 * U, bandQRain))
      rawSplit == p.groupSplit
  IN  [freqScale |-> p.freqScale, freqCenter |-> p.freqCenter,
       decayScale |-> p.decayScale,
       nBranches |-> Max(0, Min(MAX_BRANCHES, Trunc(p.nbranches))),
       bandQNoiseClamped |-> bandQNoiseClamped,
       bandQRainClamped |-> bandQRainClamped,
       bandQNoiseChanged |-> bandQNoiseClamped # prevQN,
       bandQRainChanged |-> bandQRainClamped # prevQR,
       lfoEnabledBlock |-> p.lfoEnabled >= U \div 2,
       lfoRateBlock |-> Max(U \div 10, Or(p.lfoRate, 2 * U)),
       lfoDepthBlock |-> Max(0, Min(U, Or(p.lfoDepth, U \div 2))),
       lfoWaveBlock |-> Trunc(p.lfoWave),
       rainEnabledBlock |-> p.rainEnabled >= U \div 2,
       groupEnabledBlock |-> p.groupEnabled >= U \div 2,
       groupSplitCount |-> Max(0, Min(MAX_BRANCHES, Round(rawSplit))),
       monitorExciterBlock |-> p.monitorExciter >= U \div 2]

\* the exciter low-pass (Butterworth) coefficients of a block
ExciterLowPass(p) ==
  LET fc == Max(20 * U, Min(20000 * U, Or(p.exciterCutoff, 4000 * U)))
      cosw0 == CosTurn(Omega(fc))
      sinw0 == SinTurn(Omega(fc))
      alpha == RDiv(sinw0 * U, 14142)
      a0 == U + alpha
  IN  [b0 |-> RDiv(((U - cosw0) \div 2) * U, a0),
       b1 |-> RDiv((U - cosw0) * U, a0),
       b2 |-> RDiv(((U - cosw0) \div 2) * U, a0),
       a1 |-> RDiv((-2 * cosw0) * U, a0),
       a2 |-> RDiv((U - alpha) * U, a0)]
\* the exciter high-pass coefficient RC / (RC + dt) = sr / (sr + 2 pi fhp)
ExciterHighPass(p) ==
  LET fhp == Max(10 * U, Min(2000 * U, Or(p.exciterHP, 50 * U)))
      twoPiF == RDiv(MulDiv(fhp, 62832, U), U)
  IN  RDiv(sampleRate * U, sampleRate + twoPiF)

(***************************************************************************)
(* The shared exciter of one sample: LFO, white noise, colouring, the      *)
(* high-pass and the low-pass.  lfoPhase is kept in units of 1/(U*U), so   *)
(* that one sample's increment lfoRate / sampleRate is not rounded away.   *)
(***************************************************************************)
PhaseOne == U * U
ExciterSample(p, b, s) ==
  LET nType == Trunc(p.noiseType)
      Clip(x) == IF x > U THEN U ELSE IF x < -U THEN -U ELSE x
      Written(phase1, lfoSH1, rng, baseWhite, pk3, brown1, colored, hp,
              exciterNoise) ==
        [lfoPhase |-> phase1, lfoSH |-> lfoSH1, rngState |-> rng,
         pk |-> IF nType = 1 THEN pk3 ELSE s.pk,
         brown |-> IF nType = 2 THEN brown1 ELSE s.brown,
         prevWhite |-> IF nType = 3 THEN baseWhite ELSE s.prevWhite,
         hpf |-> [s.hpf EXCEPT !.x1 = colored, !.y1 = hp],
         ex |-> [s.ex EXCEPT !.x2 = s.ex.x1, !.x1 = hp, !.y2 = s.ex.y1,
                             !.y1 = exciterNoise],
         exciterNoise |-> exciterNoise]
      LowPass(phase1, lfoSH1, rng, baseWhite, pk3, brown1, colored, hp) ==
        Written(phase1, lfoSH1, rng, baseWhite, pk3, brown1, colored, hp,
          FSub(FSub(FAdd(FAdd(FMul(s.ex.b0, hp), FMul(s.ex.b1, s.ex.x1)),
                         FMul(s.ex.b2, s.ex.x2)),
                    FMul(s.ex.a1, s.ex.y1)),
               FMul(s.ex.a2, s.ex.y2)))
      HighPass(phase1, lfoSH1, rng, baseWhite, pk3, brown1, colored) ==
        LowPass(phase1, lfoSH1, rng, baseWhite, pk3, brown1, colored,
          FMul(s.hpf.a, FSub(FAdd(s.hpf.y1, colored), s.hpf.x1)))
      Colour(phase1, lfoSH1, rng, baseWhite, pk3, brown1) ==
        HighPass(phase1, lfoSH1, rng, baseWhite, pk3, brown1,
          CASE nType = 1 ->
                 FMul(FAdd(FAdd(pk3[1], pk3[2]),
                           FAdd(pk3[3], FMul(1848, baseWhite))), 500)
            [] nType = 2 -> brown1
            [] nType = 3 -> FMul(FSub(baseWhite, s.prevWhite), U \div 2)
            [] OTHER -> FMul(baseWhite, 2000))
      Noise(phase1, lfoSH1, rng, baseWhite) ==
        Colour(phase1, lfoSH1, rng, baseWhite,
          <<FAdd(FMul(9977, s.pk[1]), FMul(990, baseWhite)),
            FAdd(FMul(9630, s.pk[2]), FMul(2965, baseWhite)),
            FAdd(FMul(5700, s.pk[3]), FMul(10527, baseWhite))>>,
          Clip(FMul(FAdd(s.brown, FMul(baseWhite, 200)), 9980)))
      White(phase1, lfoSH1, lfoAmp, whiteDraw) ==
        Noise(phase1, lfoSH1, whiteDraw.rng,
              FMul(whiteDraw.val, FMul(p.noiseLevel, lfoAmp)))
      Depth(phase1, rng1, lfoSH1, lfoVal) ==
        White(phase1, lfoSH1,
              IF b.lfoEnabledBlock
              THEN (U - b.lfoDepthBlock)
                     + FMul(b.lfoDepthBlock, (lfoVal + U) \div 2)
              ELSE U,
              nextSigned(rng1))
      Wave(phase1, rng1, lfoSH1, ph) ==
        Depth(phase1, rng1, lfoSH1,
          CASE b.lfoWaveBlock = 1 ->
                 4 * Abs(ph - (IF ph >= U \div 2 THEN U ELSE 0)) - U
            [] b.lfoWaveBlock = 2 -> (IF ph < U \div 2 THEN U ELSE -U)
            [] b.lfoWaveBlock = 3 -> lfoSH1
            [] OTHER -> SinTurn(ph))
      Hold(phase1, hold, shDraw) ==
        Wave(phase1, IF hold THEN shDraw.rng ELSE s.rngState,
             IF hold THEN shDraw.val ELSE s.lfoSH, phase1 \div U)
      Wrap(phase0, wrapped) ==
        Hold(IF ~b.lfoEnabledBlock THEN s.lfoPhase
             ELSE IF wrapped THEN phase0 - PhaseOne ELSE phase0,
             wrapped /\ b.lfoWaveBlock = 3, nextSigned(s.rngState))
      Advance(phase0) ==
        Wrap(phase0, b.lfoEnabledBlock /\ phase0 >= PhaseOne)
  IN  Advance(s.lfoPhase + RDiv(b.lfoRateBlock * U, sampleRate))

(***************************************************************************)
(* The raindrop generator of one sample.                                   *)
(***************************************************************************)
\* rain parameters whose gain was muted while the exciter is monitored
RainLocalsMonitored(p) ==
  [rainRate |-> Max(U \div 10, Or(p.rainRate, 6 * U)),
   rainDurMs |-> Max(U, Or(p.rainDurMs, 8 * U)),
   rainGain |-> IF p.monitorExciter >= U \div 2 THEN 0
                ELSE Max(0, Or(p.rainGain, (3 * U) \div 10)),
   rainSpread |-> Max(0, Min(U, Or(p.rainSpread, (4 * U) \div 10))),
   rainCenter |-> Max(0, Min(U, Or(p.rainCenter, U \div 2))),
   limbs |-> Trunc(Max(U, Min(10 * U, Or(p.rainLimbs, 5 * U))))]
RainLocals(p) ==
  [rainRate |-> Max(U \div 10, Or(p.rainRate, 6 * U)),
   rainDurMs |-> Max(U, Or(p.rainDurMs, 8 * U)),
   rainGain |-> Max(0, Or(p.rainGain, (3 * U) \div 10)),
   rainSpread |-> Max(0, Min(U, Or(p.rainSpread, (4 * U) \div 10))),
   rainCenter |-> Max(0, Min(U, Or(p.rainCenter, U \div 2))),
   limbs |-> Trunc(Max(U, Min(10 * U, Or(p.rainLimbs, 5 * U))))]
\* Math.exp(-1 / Math.max(1, rainDurMs * 0.001 * sampleRate))
rainDecay(rainDurMs) ==
  ExpNeg(RDiv(U * U, Max(U, rainDurMs * (sampleRate \div 1000))))
\* a trigger that lands on the split index without looking at nBranches
RainIndexAtSplit(r, b, u1, u2) == Max(0, Min(b.nBranches, b.groupSplitCount))
\* the branch a trigger lands on, from the draws u1, u2 of nextRand()
RainIndex(r, b, u1, u2) ==
  LET nBranches == b.nBranches
      splitIdx == Max(0, Min(nBranches, b.groupSplitCount))
      Regroup(idx, moved) ==
        IF b.groupEnabledBlock /\ idx < splitIdx
        THEN (IF moved >= nBranches THEN nBranches - 1 ELSE moved)
        ELSE idx
      Group(idx) ==
        Regroup(idx, splitIdx + (idx % Max(1, nBranches - splitIdx)))
      Index(raw) ==
        Group(IF raw < 0 THEN 0
              ELSE IF raw >= nBranches THEN nBranches - 1 ELSE raw)
      Gauss(centerIdx, sigma, z) ==
        Index(Round(centerIdx * U + FMul(sigma, z)))
      BoxMuller(negLn) ==
        Gauss(Round(r.rainCenter * (nBranches - 1)),
              Max(U \div 2, (r.rainSpread * (nBranches - 1)) \div 2),
              FMul(Sqrt(2 * negLn), CosTurn(u2)))
  IN  BoxMuller(IF u1 = 0 THEN 230259 ELSE NegLn(u1))
\* the inter-arrival count in samples, from the draw u of nextRand()
RainInterval(r, u) ==
  LET InSamples(intervalMs) ==
        Max(1, (intervalMs * (sampleRate \div 1000) + U \div 2) \div U)
      Interval(negLn) == InSamples(RDiv(negLn * 1000, r.rainRate))
  IN  Interval(IF u = 0 THEN 276310 ELSE NegLn(u))
\* the limb loop from limb li on; acc holds rngState, rainEnv and
\* rainNextSamples
RECURSIVE RainLimbs(_, _, _, _)
RainLimbs(r, b, li, acc) ==
  IF li >= r.limbs THEN acc
  ELSE
    LET next == acc.rainNextSamples[li]
        Trigger(idx, d3) ==
          RainLimbs(r, b, li + 1,
            [rngState |-> d3.rng,
             rainEnv |-> [acc.rainEnv EXCEPT ![idx] = FAdd(@, U)],
             rainNextSamples |->
               [acc.rainNextSamples EXCEPT ![li] = RainInterval(r, d3.val)],
             hits |-> acc.hits \cup {<<li, idx>>}])
        Third(d1, d2) ==
          Trigger(RainIndex(r, b, d1.val, d2.val), nextRand(d2.rng))
        Second(d1) == Third(d1, nextRand(d1.rng))
    IN  IF next <= 0
        THEN Second(nextRand(acc.rngState))
        ELSE RainLimbs(r, b, li + 1,
               [acc EXCEPT !.rainNextSamples[li] = next - 1])
\* a generator whose decay loop ran over all MAX_BRANCHES envelopes
RainSampleDecayAll(p, b, rng, env, nextSamples) ==
  LET Decayed(acc, decay) ==
        [acc EXCEPT !.rainEnv =
           [di \in Branches |-> FMul(acc.rainEnv[di], decay)]]
      Triggers(r, acc0) ==
        Decayed(IF b.rainEnabledBlock /\ r.limbs > 0 /\ b.nBranches > 0
                THEN RainLimbs(r, b, 0, acc0) ELSE acc0,
                rainDecay(r.rainDurMs))
  IN  Triggers(RainLocals(p),
               [rngState |-> rng, rainEnv |-> env,
                rainNextSamples |-> nextSamples, hits |-> {}])
\* triggers, then the decay of the live branches' envelopes
RainSample(p, b, rng, env, nextSamples) ==
  LET Decayed(acc, decay) ==
        [acc EXCEPT !.rainEnv =
           [di \in Branches |->
              IF di < b.nBranches THEN FMul(acc.rainEnv[di], decay)
              ELSE acc.rainEnv[di]]]
      Triggers(r, acc0) ==
        Decayed(IF b.rainEnabledBlock /\ r.limbs > 0 /\ b.nBranches > 0
                THEN RainLimbs(r, b, 0, acc0) ELSE acc0,
                rainDecay(r.rainDurMs))
  IN  Triggers(RainLocals(p),
               [rngState |-> rng, rainEnv |-> env,
                rainNextSamples |-> nextSamples, hits |-> {}])

(***************************************************************************)
(* State.                                                                  *)
(***************************************************************************)
VARIABLES
  \* per-branch targets (Float32Array of MAX_BRANCHES each)
  branchFreqHz, branchDecayMs, branchAmp, branchPan,
  \* smoothed values
  smoothFreqHz, smoothAmp, smoothPan, smoothMix,
  \* equal-power pan gains and the pan they were last refreshed for
  leftPanGain, rightPanGain, prevPanForGains,
  \* coef[b]: two_a, two_b, two_c, c_r, c_rcos, c_rsin of branch b
  coef,
  \* bpN[b], bpR[b]: b0, b1, b2, a1, a2 and the delay line x1, x2, y1, y2
  bpN, bpR,
  \* resN[b], resR[b]: the resonator histories two_y1, two_y2, c_ry1, c_iy1
  \* of the noise path (twoN_y1, ...) and of the rain path (twoR_y1, ...)
  resN, resR,
  cachedEffFreq, cachedEffDecay,
  rainEnv, rainNextSamples,
  \* exciter low-pass (ex_b0 .. ex_y2) and high-pass (hpf_x1, hpf_y1, hpf_a)
  ex, hpf,
  lfoPhase, lfoSH, prevWhite, brown, pk,
  rngState,
  prevBandQNoise, prevBandQRain,
  scaleConfig, scalePitchClasses,
  \* the MessagePort: messages posted by the node and not yet delivered
  port,
  \* "idle" between process() calls, "block" inside one; frame is the
  \* index i of the next sample; parameters is the call's argument and blk
  \* the values process() reads once per block
  pc, frame, parameters, blk,
  \* loc[b]: the locals of the branch loop at the last sample of branch b
  loc,
  \* the sample last written to each output bus
  out,
  \* process() calls started and messages posted so far
  nBlocks, nPosts,
  \* the last run of the message handler ended with an exception
  thrown,
  \* the branches snapped by setAllBranches and not processed since
  snapped,
  \* the groupEnabled flag and groupSplit count of every block so far
  groupLog,
  \* the last step taken and the message it posted or handled
  last,
  \* the arguments and results of a helper function called on its own
  probe

targetVars == <<branchFreqHz, branchDecayMs, branchAmp, branchPan>>
smoothVars == <<smoothFreqHz, smoothAmp, smoothPan>>
gainVars == <<leftPanGain, rightPanGain>>
coefVars == <<coef, cachedEffFreq, cachedEffDecay>>
filterVars == <<bpN, bpR, resN, resR, rainEnv, ex, hpf>>
noiseVars == <<lfoPhase, lfoSH, prevWhite, brown, pk, rngState,
               rainNextSamples>>
scaleVars == <<scaleConfig, scalePitchClasses>>
blockVars == <<pc, frame, parameters, blk, loc, out, nBlocks>>
engineVars ==
  <<targetVars, smoothVars, smoothMix, gainVars, prevPanForGains, coefVars,
    filterVars, noiseVars, prevBandQNoise, prevBandQRain, scaleVars>>
\* everything but probe
processorVars ==
  <<engineVars, blockVars, port, nPosts, thrown, snapped, groupLog, last>>
vars == <<processorVars, probe>>

(***************************************************************************)
(* One iteration of the branch loop.                                       *)
(***************************************************************************)
\* x * Math.pow(2, k) for an integer number k of octaves
Pow2Mul(x, k) ==
  IF IsNaN(x) THEN NaN
  ELSE IF k >= 0 THEN MulDiv(x, (2 ^ k) * U, U) ELSE RDiv(x, 2 ^ (-k))
\* an effective frequency that stayed quantized with quantize off
EffFreqSticky(freqHz, p, b, pcs) ==
  LET oct == Trunc(Or(p.octaves, 0))
      scaled == FAdd(Pow2Mul(FMul(freqHz, b.freqScale), oct), b.freqCenter)
      clamped == clamp(scaled, 25 * U, Nyq45)
  IN  IF pcs.null \/ Len(pcs.pcs) = 0 THEN quantize12TET(clamped)
      ELSE quantizeToScale(clamped, pcs.pcs)
\* the effective frequency of a branch: scaling, clamp, then quantization
EffFreq(freqHz, p, b, pcs) ==
  LET oct == Trunc(Or(p.octaves, 0))
      scaled == FAdd(Pow2Mul(FMul(freqHz, b.freqScale), oct), b.freqCenter)
      clamped == clamp(scaled, 25 * U, Nyq45)
  IN  IF p.quantize >= U \div 2
      THEN (IF pcs.null \/ Len(pcs.pcs) = 0 THEN quantize12TET(clamped)
            ELSE quantizeToScale(clamped, pcs.pcs))
      ELSE clamped
\* one sample of a per-branch bandpass: the new delay line and the output
Bandpass(f, in) ==
  LET x == FSub(FSub(FAdd(FAdd(FMul(f.b0, in), FMul(f.b1, f.x1)),
                          FMul(f.b2, f.x2)),
                     FMul(f.a1, f.y1)),
                FMul(f.a2, f.y2))
  IN  [f EXCEPT !.x2 = f.x1, !.x1 = in, !.y2 = f.y1, !.y1 = x]
\* one sample of the 2-pole and the complex 1-pole resonator of a path
Resonate(c, h, xbp) ==
  LET y == FAdd(FAdd(FMul(c.two_a, xbp), FMul(c.two_b, h.two_y1)),
                FMul(c.two_c, h.two_y2))
      re == FSub(FAdd(FMul(xbp, 200), FMul(c.c_rcos, h.c_ry1)),
                 FMul(c.c_rsin, h.c_iy1))
      im == FAdd(FMul(c.c_rsin, h.c_ry1), FMul(c.c_rcos, h.c_iy1))
  IN  [two_y1 |-> clamp(y, -U, U), two_y2 |-> h.two_y1,
       c_ry1 |-> clamp(re, -U, U), c_iy1 |-> clamp(im, -U, U)]
\* (1 - smoothMix) * two_y1 + smoothMix * c_ry1
\* a mix that took the 2-pole resonator alone
CrossfadeDry(h, mix) == h.two_y1
Crossfade(h, mix) ==
  FAdd(FMul(U - mix, h.two_y1), FMul(mix, h.c_ry1))

\* branch b at sample i; exciterNoise, env (rainEnv after the decay) and
\* mix (smoothMix) are this sample's
BranchSample(b, i, p, k, pcs, exciterNoise, env, rainGain, mix) ==
  LET splitIdxBlock == IF k.groupEnabledBlock
                       THEN Max(0, Min(k.nBranches, k.groupSplitCount))
                       ELSE 0
      inGroup1 == b < splitIdxBlock
      Retuned(f, cf) ==
        [f EXCEPT !.b0 = cf.b0, !.b1 = cf.b1, !.b2 = cf.b2,
                  !.a1 = cf.a1, !.a2 = cf.a2]
      \* sm: freqHz, amp, panNow; pan: refresh, left, right; eff: effFreq,
      \* effDecay and the dirty flags; in: the excitations of the branch
      Written(sm, pan, eff, c, in, gN, gR, hN, hR, sumN, sumR, vN, vR) ==
        [smoothFreqHz |-> sm.freqHz, smoothAmp |-> sm.amp,
         smoothPan |-> sm.panNow,
         prevPan |-> IF pan.refresh THEN sm.panNow ELSE prevPanForGains[b],
         left |-> pan.left, right |-> pan.right,
         coef |-> c,
         cachedEffFreq |->
           IF eff.dirty THEN eff.effFreq ELSE cachedEffFreq[b],
         cachedEffDecay |->
           IF eff.dirty THEN eff.effDecay ELSE cachedEffDecay[b],
         bpN |-> gN, bpR |-> gR, resN |-> hN, resR |-> hR,
         loc |-> [live |-> TRUE, effFreq |-> eff.effFreq,
                  effDecay |-> eff.effDecay,
                  freqChanged |-> eff.freqChanged,
                  decayChanged |-> eff.decayChanged,
                  recomputed |-> eff.dirty,
                  newN |-> eff.newN, newR |-> eff.newR,
                  grouped |-> k.groupEnabledBlock, split |-> splitIdxBlock,
                  exciterNoise |-> exciterNoise,
                  rainInput |-> in.rainInput,
                  noiseIn |-> in.noiseIn, rainIn |-> in.rainIn,
                  xbpN |-> gN.y1, xbpR |-> gR.y1,
                  sumN |-> sumN, sumR |-> sumR, vN |-> vN, vR |-> vR,
                  l0 |-> FMul(vN, pan.left), r0 |-> FMul(vN, pan.right),
                  l1 |-> FMul(vR, pan.left), r1 |-> FMul(vR, pan.right)]]
      Scaled(sm, pan, eff, c, in, gN, gR, hN, hR, sumN, sumR) ==
        Written(sm, pan, eff, c, in, gN, gR, hN, hR, sumN, sumR,
                FMul(sumN, sm.amp), FMul(sumR, sm.amp))
      Mixed(sm, pan, eff, c, in, gN, gR, hN, hR) ==
        Scaled(sm, pan, eff, c, in, gN, gR, hN, hR,
               Crossfade(hN, mix), Crossfade(hR, mix))
      Resonated(sm, pan, eff, c, in, gN, gR) ==
        Mixed(sm, pan, eff, c, in, gN, gR,
              Resonate(c, resN[b], gN.y1), Resonate(c, resR[b], gR.y1))
      Filtered(sm, pan, eff, c, in) ==
        Resonated(sm, pan, eff, c, in,
          Bandpass(IF eff.newN
                   THEN Retuned(bpN[b],
                          recomputeBandpassCoefficients(
                            eff.effFreq, k.bandQNoiseClamped))
                   ELSE bpN[b],
                   in.noiseIn),
          Bandpass(IF eff.newR
                   THEN Retuned(bpR[b],
                          recomputeBandpassCoefficients(
                            eff.effFreq, k.bandQRainClamped))
                   ELSE bpR[b],
                   in.rainIn))
      Routed(sm, pan, eff, c, rainInput) ==
        Filtered(sm, pan, eff, c,
          [rainInput |-> rainInput,
           noiseIn |-> IF k.groupEnabledBlock
                       THEN (IF inGroup1 THEN exciterNoise ELSE 0)
                       ELSE exciterNoise,
           rainIn |-> IF k.groupEnabledBlock
                      THEN (IF inGroup1 THEN 0 ELSE rainInput)
                      ELSE rainInput])
      Tuned(sm, pan, eff) ==
        Routed(sm, pan, eff,
               IF eff.dirty
               THEN recomputeCoefficients(eff.effFreq, eff.effDecay)
               ELSE coef[b],
               FMul(rainGain, env[b]))
      Checked(sm, pan, effFreq, effDecay, freqChanged, decayChanged) ==
        Tuned(sm, pan,
              [effFreq |-> effFreq, effDecay |-> effDecay,
               freqChanged |-> freqChanged, decayChanged |-> decayChanged,
               dirty |-> freqChanged \/ decayChanged,
               newN |-> freqChanged \/ k.bandQNoiseChanged,
               newR |-> freqChanged \/ k.bandQRainChanged])
      Effective(sm, pan, effFreq, effDecay) ==
        Checked(sm, pan, effFreq, effDecay,
                FFar(effFreq, cachedEffFreq[b], Eps),
                FFar(effDecay, cachedEffDecay[b], Eps))
      Panned(sm, refresh, gains) ==
        Effective(sm,
                  [refresh |-> refresh, left |-> gains[1],
                   right |-> gains[2]],
                  EffFreq(sm.freqHz, p, k, pcs),
                  FMax(U, FMul(branchDecayMs[b], k.decayScale)))
      Refreshed(sm, refresh) ==
        Panned(sm, refresh,
               IF refresh THEN PanGains(sm.panNow)
               ELSE <<leftPanGain[b], rightPanGain[b]>>)
      Smoothed(sm) ==
        Refreshed(sm, (i % 8 = 0)
                        /\ FFar(sm.panNow, prevPanForGains[b], PanEps))
  IN  Smoothed([freqHz |->
                  smoothToward(smoothFreqHz[b], branchFreqHz[b], alphaFreq),
                amp |-> smoothToward(smoothAmp[b], branchAmp[b], alphaAmp),
                panNow |->
                  smoothToward(smoothPan[b], branchPan[b], alphaAmp)])

\* a bus that summed every branch, whatever its index
RECURSIVE SumEvery(_, _, _, _)
SumEvery(f, n, m, r) ==
  IF n <= 0 THEN 0 ELSE FAdd(SumEvery(f, n - 1, m, r), f[n - 1])
\* the sum of f[b] over the branches b < n with b % m = r
RECURSIVE SumLive(_, _, _, _)
SumLive(f, n, m, r) ==
  IF n <= 0 THEN 0
  ELSE IF (n - 1) % m = r THEN FAdd(SumLive(f, n - 1, m, r), f[n - 1])
  ELSE SumLive(f, n - 1, m, r)

(***************************************************************************)
(* Messages.  A field of params that is absent, undefined or not of type   *)
(* number is Undef; NaN is of type number.  An index is an integer, NaN,   *)
(* Undef (missing) or Null.                                                *)
(***************************************************************************)
Undef == -(2147483646)
Null == -(2147483645)
\* a handler that took every field for a number
AnyValue(x) == TRUE
\* typeof x === 'number'
IsNumber(x) == x # Undef /\ x # Null
NoParams == [freq |-> Undef, decay |-> Undef, amp |-> Undef, pan |-> Undef]
Msg(type, index, hasParams, params, branches, name, root) ==
  [type |-> type, index |-> index, hasParams |-> hasParams,
   params |-> params, branches |-> branches, name |-> name, root |-> root]
\* ResonatorNode.setBranchParams, setAllBranches, setScale
SetBranchParamsMsg(index, params) ==
  Msg("setBranchParams", index, TRUE, params, <<>>, "", "")
SetAllBranchesMsg(branches) ==
  Msg("setAllBranches", Undef, FALSE, NoParams, branches, "", "")
SetScaleMsg(name, root) ==
  Msg("setScale", Undef, FALSE, NoParams, <<>>, name, root)

\* index >= 0 && index < MAX_BRANCHES (null converts to 0, undefined and
\* NaN to NaN)
IndexPasses(index) ==
  IF index = Null THEN TRUE
  ELSE IF index = Undef \/ index = NaN THEN FALSE
  ELSE index >= 0 /\ index < MAX_BRANCHES
\* an array that wrapped every index into its range
WrapIndex(index) == {index % MAX_BRANCHES}
\* the elements that array[index] = v writes: a Float32Array has an element
\* only for an integer index in range (array[null] sets a property named
\* "null", array[-1] nothing)
Slot(index) == IF index \in Branches THEN {index} ELSE {}
\* a bulk update that ran over every branch
CountAll(arr) == MAX_BRANCHES
\* Math.min(arr.length, MAX_BRANCHES)
Count(arr) == IF Len(arr) < MAX_BRANCHES THEN Len(arr) ELSE MAX_BRANCHES
\* arr[i] || {}
Entry(arr, i) == IF i < Len(arr) THEN arr[i + 1] ELSE NoParams

\* a setBranchParams that stored the pan target alone and left the
\* smoothed pan to the per-sample smoother
HandlePanTargetOnly(m) ==
  /\ branchPan' =
       [b \in Branches |->
          IF /\ IndexPasses(m.index) /\ m.hasParams
             /\ IsNumber(m.params.pan) /\ b \in Slot(m.index)
          THEN clamp(m.params.pan, -U, U) ELSE branchPan[b]]
  /\ thrown' = FALSE
  /\ UNCHANGED <<branchFreqHz, branchDecayMs, branchAmp, smoothVars,
                 gainVars, cachedEffFreq, cachedEffDecay, scaleVars>>
\* the handler's branch for setBranchParams
HandleSetBranchParams(m) ==
  LET index == m.index
      params == m.params
      go == IndexPasses(index) /\ m.hasParams
      pan == clamp(params.pan, -U, U)
      Store(array, supplied, v) ==
        [b \in Branches |->
           IF go /\ supplied /\ b \in Slot(index) THEN v ELSE array[b]]
  IN  /\ branchFreqHz' =
           Store(branchFreqHz, IsNumber(params.freq), params.freq)
      /\ branchDecayMs' =
           Store(branchDecayMs, IsNumber(params.decay), FMax(U, params.decay))
      /\ branchAmp' =
           Store(branchAmp, IsNumber(params.amp), FMax(0, params.amp))
      /\ branchPan' = Store(branchPan, IsNumber(params.pan), pan)
      /\ smoothPan' = Store(smoothPan, IsNumber(params.pan), pan)
      /\ leftPanGain' =
           Store(leftPanGain, IsNumber(params.pan), PanGains(pan)[1])
      /\ rightPanGain' =
           Store(rightPanGain, IsNumber(params.pan), PanGains(pan)[2])
      /\ thrown' = FALSE
      /\ UNCHANGED <<smoothFreqHz, smoothAmp, cachedEffFreq, cachedEffDecay,
                     scaleVars>>

\* the handler's branch for setAllBranches
HandleSetAllBranches(m) ==
  LET arr == m.branches
      count == Count(arr)
      Hit(i) == i < count
      p(i) == Entry(arr, i)
      freq(i) == IF IsNumber(p(i).freq) THEN p(i).freq ELSE 440 * U
      decay(i) == IF IsNumber(p(i).decay) THEN FMax(U, p(i).decay)
                  ELSE 400 * U
      amp(i) == IF IsNumber(p(i).amp) THEN FMax(0, p(i).amp)
                ELSE U \div 50
      pan(i) == IF IsNumber(p(i).pan) THEN clamp(p(i).pan, -U, U) ELSE 0
      Upd(old, new(_)) ==
        [i \in Branches |-> IF Hit(i) THEN new(i) ELSE old[i]]
      left(i) == PanGains(pan(i))[1]
      right(i) == PanGains(pan(i))[2]
      zero(i) == 0
  IN  /\ branchFreqHz' = Upd(branchFreqHz, freq)
      /\ branchDecayMs' = Upd(branchDecayMs, decay)
      /\ branchAmp' = Upd(branchAmp, amp)
      /\ branchPan' = Upd(branchPan, pan)
      /\ smoothFreqHz' = Upd(smoothFreqHz, freq)
      /\ smoothAmp' = Upd(smoothAmp, amp)
      /\ smoothPan' = Upd(smoothPan, pan)
      /\ leftPanGain' = Upd(leftPanGain, left)
      /\ rightPanGain' = Upd(rightPanGain, right)
      /\ cachedEffFreq' = Upd(cachedEffFreq, zero)
      /\ cachedEffDecay' = Upd(cachedEffDecay, zero)
      /\ thrown' = FALSE
      /\ UNCHANGED scaleVars

\* the handler's branch for setScale
HandleSetScale(m) ==
  LET name == IF m.name = "" THEN "off" ELSE m.name
      root == IF m.root = "" THEN "A" ELSE m.root
      throws == name \in ProtoNames
  IN  /\ scaleConfig' = [name |-> name, root |-> root]
      /\ scalePitchClasses' =
           IF throws THEN scalePitchClasses
           ELSE computePitchClasses(name, root)
      /\ thrown' = throws
      /\ UNCHANGED <<targetVars, smoothVars, gainVars, cachedEffFreq,
                     cachedEffDecay>>

\* a handler that cleared the rain-path resonators on every command
HandlerResets ==
  /\ resR' = [b \in Branches |->
                [two_y1 |-> 0, two_y2 |-> 0, c_ry1 |-> 0, c_iy1 |-> 0]]
  /\ UNCHANGED <<smoothMix, prevPanForGains, coef, bpN, bpR, resN, rainEnv,
                 ex, hpf, noiseVars, prevBandQNoise, prevBandQRain>>
\* what no branch of the handler writes
HandlerFrame ==
  UNCHANGED <<smoothMix, prevPanForGains, coef, filterVars, noiseVars,
              prevBandQNoise, prevBandQRain>>

\* port.onmessage applied to message m
OnMessage(m) ==
  /\ CASE m.type = "setBranchParams" -> HandleSetBranchParams(m)
       [] m.type = "setAllBranches" -> HandleSetAllBranches(m)
       [] m.type = "setScale" -> HandleSetScale(m)
       [] OTHER -> /\ thrown' = FALSE
                   /\ UNCHANGED <<targetVars, smoothVars, gainVars,
                                   cachedEffFreq, cachedEffDecay, scaleVars>>
  /\ HandlerFrame

(***************************************************************************)
(* The state after construction.                                           *)
(***************************************************************************)
ZeroHistory == [two_y1 |-> 0, two_y2 |-> 0, c_ry1 |-> 0, c_iy1 |-> 0]
InitBandpass ==
  LET c == recomputeBandpassCoefficients(440 * U, 25 * U)
  IN  [b0 |-> c.b0, b1 |-> c.b1, b2 |-> c.b2, a1 |-> c.a1, a2 |-> c.a2,
       x1 |-> 0, x2 |-> 0, y1 |-> 0, y2 |-> 0]
InitCoef == recomputeCoefficients(440 * U, 400 * U)
\* the branch-loop locals of a branch the loop did not visit
IdleLoc ==
  [live |-> FALSE, effFreq |-> 0, effDecay |-> 0, freqChanged |-> FALSE,
   decayChanged |-> FALSE, recomputed |-> FALSE, newN |-> FALSE,
   newR |-> FALSE, grouped |-> FALSE, split |-> 0, exciterNoise |-> 0,
   rainInput |-> 0, noiseIn |-> 0, rainIn |-> 0, xbpN |-> 0, xbpR |-> 0,
   sumN |-> 0, sumR |-> 0, vN |-> 0, vR |-> 0, l0 |-> 0, r0 |-> 0,
   l1 |-> 0, r1 |-> 0]
Silence ==
  [out0L |-> 0, out0R |-> 0, out1L |-> 0, out1R |-> 0,
   out2 |-> <<0, 0, 0, 0, 0>>]
NoMsg == Msg("none", Undef, FALSE, NoParams, <<>>, "", "")
NoProbe == [kind |-> "none"]

\* the processor with silent filters and every smoothed value at its
\* target: w holds the LFO phase, the generator state, the cached
\* effective frequency and decay, the parameters of the last process()
\* call, the block flags logged and the last step
Assembled(w) ==
  /\ branchFreqHz = [b \in Branches |-> 440 * U]
  /\ branchDecayMs = [b \in Branches |-> 400 * U]
  /\ branchAmp = [b \in Branches |-> U \div 50]
  /\ branchPan = [b \in Branches |-> 0]
  /\ smoothFreqHz = [b \in Branches |-> 440 * U]
  /\ smoothAmp = [b \in Branches |-> U \div 50]
  /\ smoothPan = [b \in Branches |-> 0]
  /\ smoothMix = U \div 2
  /\ leftPanGain = [b \in Branches |-> PanGains(0)[1]]
  /\ rightPanGain = [b \in Branches |-> PanGains(0)[2]]
  /\ prevPanForGains = [b \in Branches |-> 0]
  /\ coef = [b \in Branches |-> InitCoef]
  /\ bpN = [b \in Branches |-> InitBandpass]
  /\ bpR = [b \in Branches |-> InitBandpass]
  /\ resN = [b \in Branches |-> ZeroHistory]
  /\ resR = [b \in Branches |-> ZeroHistory]
  /\ cachedEffFreq = [b \in Branches |-> w.cachedEffFreq]
  /\ cachedEffDecay = [b \in Branches |-> w.cachedEffDecay]
  /\ rainEnv = [b \in Branches |-> 0]
  /\ rainNextSamples = [li \in 0 .. (MAX_LIMBS - 1) |-> 1]
  /\ ex = [b0 |-> w.ex.b0, b1 |-> w.ex.b1, b2 |-> w.ex.b2, a1 |-> w.ex.a1,
           a2 |-> w.ex.a2, x1 |-> 0, x2 |-> 0, y1 |-> 0, y2 |-> 0]
  /\ hpf = [x1 |-> 0, y1 |-> 0, a |-> w.hpf_a]
  /\ lfoPhase = w.lfoPhase
  /\ lfoSH = 0
  /\ prevWhite = 0
  /\ brown = 0
  /\ pk = <<0, 0, 0>>
  /\ rngState = w.rngState
  /\ prevBandQNoise = 25 * U
  /\ prevBandQRain = 25 * U
  /\ scaleConfig = [name |-> "off", root |-> "A"]
  /\ scalePitchClasses = NullPcs
  /\ port = <<>>
  /\ pc = "idle"
  /\ frame = w.frame
  /\ parameters = w.parameters
  /\ blk = BlockLocals(w.parameters, 25 * U, 25 * U)
  /\ loc = [b \in Branches |-> w.loc]
  /\ out = Silence
  /\ nBlocks = 0
  /\ nPosts = 0
  /\ thrown = FALSE
  /\ snapped = {}
  /\ groupLog = w.groupLog
  /\ last = [op |-> w.op, msg |-> NoMsg]

\* the processor after its constructor
Constructed ==
  Assembled([lfoPhase |-> 0, rngState |-> RngSeed, cachedEffFreq |-> 0,
             cachedEffDecay |-> 0, parameters |-> DefaultParameters,
             ex |-> [b0 |-> U, b1 |-> 0, b2 |-> 0, a1 |-> 0, a2 |-> 0],
             hpf_a |-> 0, frame |-> 0, loc |-> IdleLoc, groupLog |-> {},
             op |-> "new"])

Init == Constructed /\ probe = NoProbe

(***************************************************************************)
(* Steps.                                                                  *)
(***************************************************************************)
\* the process() call on the stack: its number, or 0 when there is none
Running == IF pc = "block" THEN nBlocks ELSE 0
\* an event loop that ran a task in the middle of a process() call
TaskPreempts == TRUE
\* a task of the event loop (a message event) starts only when no
\* process() call is on the stack
TaskMayRun == pc = "idle"

\* the host calls a method of ResonatorNode, which posts m; this can
\* happen at any time, also while process() runs
Post(m) ==
  /\ nPosts < MaxPosts
  /\ port' = Append(port, [msg |-> m, during |-> Running])
  /\ nPosts' = nPosts + 1
  /\ last' = [op |-> "post", msg |-> m]
  /\ UNCHANGED <<engineVars, blockVars, thrown, snapped, groupLog, probe>>

\* the event loop runs port.onmessage on the oldest message; a task runs
\* only when no process() call is on the stack
Deliver ==
  /\ TaskMayRun
  /\ port # <<>>
  /\ OnMessage(Head(port).msg)
  /\ port' = Tail(port)
  /\ snapped' =
       IF Head(port).msg.type = "setAllBranches"
       THEN snapped \cup {i \in Branches : i < Len(Head(port).msg.branches)}
       ELSE snapped
  /\ last' = [op |-> "deliver", msg |-> Head(port).msg]
  /\ UNCHANGED <<blockVars, nPosts, groupLog, probe>>

\* process() is called with parameter values p; the code before the loop
BeginBlock(p) ==
  /\ pc = "idle"
  /\ nBlocks < MaxBlocks
  /\ pc' = "block"
  /\ frame' = 0
  /\ parameters' = p
  /\ blk' = BlockLocals(p, prevBandQNoise, prevBandQRain)
  /\ ex' = LET c == ExciterLowPass(p)
           IN  [ex EXCEPT !.b0 = c.b0, !.b1 = c.b1, !.b2 = c.b2,
                          !.a1 = c.a1, !.a2 = c.a2]
  /\ hpf' = [hpf EXCEPT !.a = ExciterHighPass(p)]
  /\ nBlocks' = nBlocks + 1
  /\ loc' = [b \in Branches |-> IdleLoc]
  /\ groupLog' = groupLog \cup
       {[on |-> p.groupEnabled >= U \div 2,
         count |-> Max(0, Min(MAX_BRANCHES, Round(p.groupSplit)))]}
  /\ last' = [op |-> "begin", msg |-> NoMsg]
  /\ UNCHANGED <<targetVars, smoothVars, smoothMix, gainVars,
                 prevPanForGains, coefVars, bpN, bpR, resN, resR, rainEnv,
                 noiseVars, prevBandQNoise, prevBandQRain, scaleVars, out,
                 port, nPosts, thrown, snapped, probe>>

\* one iteration of the sample loop
Sample ==
  /\ pc = "block"
  /\ frame < Frames
  /\ \E p \in {parameters} : \E k \in {blk} :
     \E e \in {ExciterSample(p, k,
                [lfoPhase |-> lfoPhase, lfoSH |-> lfoSH,
                 rngState |-> rngState, pk |-> pk, brown |-> brown,
                 prevWhite |-> prevWhite, hpf |-> hpf, ex |-> ex])} :
     \E rain \in {RainSample(p, k, e.rngState, rainEnv, rainNextSamples)} :
     \E mix \in {smoothToward(smoothMix, p.rmix, alphaMix)} :
     \E Live \in {0 .. (k.nBranches - 1)} :
     \E B \in {[b \in Live |->
                 BranchSample(b, frame, p, k, scalePitchClasses,
                              e.exciterNoise, rain.rainEnv,
                              RainLocals(p).rainGain, mix)]} :
     \E locs \in {[b \in Branches |->
                    IF b \in Live THEN B[b].loc ELSE IdleLoc]} :
     LET Col(f) == [b \in Branches |-> locs[b][f]]
         denom == IF k.nBranches > 0 THEN k.nBranches ELSE 1
         Mean(x) == IF IsNaN(x) THEN NaN ELSE RDiv(x, denom)
         m0 == Mean(SumLive(Col("xbpN"), k.nBranches, 1, 0))
         m1 == Mean(SumLive(Col("xbpR"), k.nBranches, 1, 0))
     IN
       /\ lfoPhase' = e.lfoPhase
       /\ lfoSH' = e.lfoSH
       /\ pk' = e.pk
       /\ brown' = e.brown
       /\ prevWhite' = e.prevWhite
       /\ hpf' = e.hpf
       /\ ex' = e.ex
       /\ rngState' = rain.rngState
       /\ rainEnv' = rain.rainEnv
       /\ rainNextSamples' = rain.rainNextSamples
       /\ smoothMix' = mix
       /\ smoothFreqHz' = [b \in Branches |->
            IF b \in Live THEN B[b].smoothFreqHz ELSE smoothFreqHz[b]]
       /\ smoothAmp' = [b \in Branches |->
            IF b \in Live THEN B[b].smoothAmp ELSE smoothAmp[b]]
       /\ smoothPan' = [b \in Branches |->
            IF b \in Live THEN B[b].smoothPan ELSE smoothPan[b]]
       /\ prevPanForGains' = [b \in Branches |->
            IF b \in Live THEN B[b].prevPan ELSE prevPanForGains[b]]
       /\ leftPanGain' = [b \in Branches |->
            IF b \in Live THEN B[b].left ELSE leftPanGain[b]]
       /\ rightPanGain' = [b \in Branches |->
            IF b \in Live THEN B[b].right ELSE rightPanGain[b]]
       /\ coef' = [b \in Branches |->
            IF b \in Live THEN B[b].coef ELSE coef[b]]
       /\ cachedEffFreq' = [b \in Branches |->
            IF b \in Live THEN B[b].cachedEffFreq ELSE cachedEffFreq[b]]
       /\ cachedEffDecay' = [b \in Branches |->
            IF b \in Live THEN B[b].cachedEffDecay ELSE cachedEffDecay[b]]
       /\ bpN' = [b \in Branches |-> IF b \in Live THEN B[b].bpN ELSE bpN[b]]
       /\ bpR' = [b \in Branches |-> IF b \in Live THEN B[b].bpR ELSE bpR[b]]
       /\ resN' = [b \in Branches |->
            IF b \in Live THEN B[b].resN ELSE resN[b]]
       /\ resR' = [b \in Branches |->
            IF b \in Live THEN B[b].resR ELSE resR[b]]
       /\ loc' = locs
       /\ out' =
            IF k.monitorExciterBlock
            THEN [out0L |-> m0, out0R |-> m0, out1L |-> m1, out1R |-> m1,
                  out2 |-> <<0, 0, 0, 0, 0>>]
            ELSE [out0L |-> SumLive(Col("l0"), k.nBranches, 1, 0),
                  out0R |-> SumLive(Col("r0"), k.nBranches, 1, 0),
                  out1L |-> SumLive(Col("l1"), k.nBranches, 1, 0),
                  out1R |-> SumLive(Col("r1"), k.nBranches, 1, 0),
                  out2 |-> [s \in 1 .. 5 |->
                     SumLive(Col("vR"), k.nBranches, 5, s - 1)]]
       /\ snapped' = snapped \ Live
  /\ frame' = frame + 1
  /\ last' = [op |-> "sample", msg |-> NoMsg]
  /\ UNCHANGED <<targetVars, prevBandQNoise, prevBandQRain, scaleVars, pc,
                 parameters, blk, nBlocks, port, nPosts, thrown, groupLog,
                 probe>>

\* the code after the sample loop; process() returns true
EndBlock ==
  /\ pc = "block"
  /\ frame = Frames
  /\ prevBandQNoise' =
       IF blk.bandQNoiseChanged THEN blk.bandQNoiseClamped
       ELSE prevBandQNoise
  /\ prevBandQRain' =
       IF blk.bandQRainChanged THEN blk.bandQRainClamped ELSE prevBandQRain
  /\ pc' = "idle"
  /\ last' = [op |-> "end", msg |-> NoMsg]
  /\ UNCHANGED <<targetVars, smoothVars, smoothMix, gainVars,
                 prevPanForGains, coefVars, filterVars, noiseVars,
                 scaleVars, frame, parameters, blk, loc, out, nBlocks, port,
                 nPosts, thrown, snapped, groupLog, probe>>

(***************************************************************************)
(* The host: the commands it may post and the parameter values it may      *)
(* hold at a process() call.                                               *)
(***************************************************************************)
Params(freq, decay, amp, pan) ==
  [freq |-> freq, decay |-> decay, amp |-> amp, pan |-> pan]
Commands ==
  { SetBranchParamsMsg(0, Params(880 * U, Undef, Undef, Undef)),
    SetBranchParamsMsg(MAX_BRANCHES - 1,
                       Params(Undef, U \div 2, -U, 2 * U)),
    SetBranchParamsMsg(0, Params(Undef, NaN, Undef, Undef)),
    SetAllBranchesMsg(<<Params(220 * U, 1000 * U, U \div 2, -U)>>),
    SetAllBranchesMsg([i \in 1 .. (MAX_BRANCHES + 1) |->
                         IF i = 1 THEN Params(NaN, Undef, Undef, Undef)
                         ELSE Params(Undef, 3000 * U, Undef, U \div 2)]),
    SetScaleMsg("major", "C") }
  \cup { SetBranchParamsMsg(index, Params(660 * U, 50 * U, U, U)) :
           index \in {-1, MAX_BRANCHES, Undef, Null} }
ParameterSets ==
  { DefaultParameters,
    [DefaultParameters EXCEPT !.rainEnabled = U, !.groupEnabled = U,
                              !.groupSplit = U, !.quantize = U,
                              !.noiseLevel = U \div 2],
    [DefaultParameters EXCEPT !.nbranches = U, !.freqScale = 4 * U,
                              !.octaves = 4 * U, !.decayScale = U \div 4,
                              !.exciterBandQNoise = 80 * U,
                              !.rainEnabled = U, !.monitorExciter = U] }

Next ==
  \/ \E m \in Commands : Post(m)
  \/ Deliver
  \/ \E p \in ParameterSets : BeginBlock(p)
  \/ Sample
  \/ EndBlock

Spec == Init /\ [][Next]_vars

(***************************************************************************)
(* quantizeToScale called on its own: a scale of the table, a root name    *)
(* and a frequency of the audio range, then the function applied to the    *)
(* frequency and once more to its own result.                              *)
(***************************************************************************)
\* one name per pitch class, and a name noteNameToClass does not know
QuantRoots ==
  {"C", "C#", "D", "Eb", "E", "F", "F#", "G", "Ab", "A", "Bb", "B", "H"}
\* the semitones A3 .. A#4, frequencies next to a half-semitone boundary,
\* off the grid, and the two ends of the clamp of the effective frequency
QuantFreqs ==
  {SemiFreq(n) : n \in 57 .. 70}
    \cup {HalfTab[2], HalfTab[2] - 1, 450 * U, 1000 * U, 25 * U, Nyq45}
QuantInit ==
  /\ Constructed
  /\ probe \in
       {[kind |-> "quantizeToScale", name |-> n, root |-> r,
         pitchClasses |-> computePitchClasses(n, r).pcs, freqHz |-> f,
         calls |-> 0, once |-> 0, twice |-> 0] :
          n \in ScaleNames, r \in QuantRoots, f \in QuantFreqs}
\* quantizeToScale(freqHz, pitchClasses)
QuantizeOnce ==
  /\ probe.kind = "quantizeToScale"
  /\ probe.calls = 0
  /\ probe' = [probe EXCEPT
                 !.calls = 1,
                 !.once = quantizeToScale(probe.freqHz, probe.pitchClasses)]
  /\ UNCHANGED processorVars
\* quantizeToScale applied to the result of the first call
QuantizeAgain ==
  /\ probe.kind = "quantizeToScale"
  /\ probe.calls = 1
  /\ probe' = [probe EXCEPT
                 !.calls = 2,
                 !.twice = quantizeToScale(probe.once, probe.pitchClasses)]
  /\ UNCHANGED processorVars
QuantNext == QuantizeOnce \/ QuantizeAgain
QuantSpec == QuantInit /\ [][QuantNext]_vars

(***************************************************************************)
(* The engine under a host that selects scales and switches quantization   *)
(* and the exciter monitor between process() calls.                        *)
(***************************************************************************)
ScaleCommands ==
  { SetScaleMsg("", ""), SetScaleMsg("off", "A"), SetScaleMsg("nosuch", "A"),
    SetScaleMsg("major", "Ab"), SetScaleMsg("constructor", "A"),
    SetScaleMsg("blues", "toString"),
    SetAllBranchesMsg(<<Params(450 * U, Undef, U, -(U \div 2))>>) }
ScaleParameterSets ==
  { [DefaultParameters EXCEPT !.quantize = U, !.noiseLevel = U \div 2,
                              !.rainEnabled = U, !.rainGain = U,
                              !.exciterBandQRain = U \div 2],
    [DefaultParameters EXCEPT !.freqScale = 2 * U, !.octaves = -U,
                              !.freqCenter = 5 * U, !.noiseLevel = U \div 2],
    [DefaultParameters EXCEPT !.monitorExciter = U,
                              !.noiseLevel = U \div 2] }
ScaleNext ==
  \/ \E m \in ScaleCommands : Post(m)
  \/ Deliver
  \/ \E p \in ScaleParameterSets : BeginBlock(p)
  \/ Sample
  \/ EndBlock
ScaleSpec == Init /\ [][ScaleNext]_vars
\* the sample loop goes on to its next iteration
Iterates == pc = "block" /\ frame < Frames /\ frame' = frame + 1
\* the code after the sample loop reaches the return statement
Returns == pc = "block" /\ frame = Frames /\ pc' = "idle"
\* the same engine on the audio thread: a call of process() is not
\* suspended for ever, so the loop goes on while it has frames left and
\* the code after it is executed.  Sample and EndBlock are the only steps
\* that change frame and end a call.
LiveSpec ==
  Init /\ [][ScaleNext]_vars /\ WF_frame(Iterates) /\ WF_pc(Returns)

(***************************************************************************)
(* The stem accumulation of one sample called on its own: for nBranches    *)
(* live branches with given rain-path sums sumR and smoothed amplitudes    *)
(* amp, stemVal = sumR * amp is added to s0 .. s4 by the switch on b % 5,  *)
(* and the five sums are written to the channels of output 2.              *)
(***************************************************************************)
StemBranches == 7
\* the branch indices of the stem probe
StemIndex == 0 .. (StemBranches - 1)
\* sumR of branch b: 2^b hundredths of the clamp range, of either sign
StemSums ==
  {[b \in StemIndex |-> IF b \in Neg THEN -((2 ^ b) * 100)
                        ELSE (2 ^ b) * 100] : Neg \in SUBSET StemIndex}
\* amp of branch b
StemAmps ==
  {[b \in StemIndex |-> U], [b \in StemIndex |-> U \div 2],
   [b \in StemIndex |-> IF b % 2 = 0 THEN U ELSE 2 * U]}
StemInit ==
  /\ Constructed
  /\ probe \in
       {[kind |-> "stems", nBranches |-> n, sumR |-> f, amp |-> a,
         calls |-> 0, out2 |-> <<0, 0, 0, 0, 0>>] :
          n \in 0 .. StemBranches, f \in StemSums, a \in StemAmps}
StemMix ==
  /\ probe.kind = "stems"
  /\ probe.calls = 0
  /\ \E stemVal \in {[b \in StemIndex |->
                         FMul(probe.sumR[b], probe.amp[b])]} :
       probe' = [probe EXCEPT
                   !.calls = 1,
                   !.out2 = [s \in 1 .. 5 |->
                               SumLive(stemVal, probe.nBranches, 5, s - 1)]]
  /\ UNCHANGED processorVars
StemSpec == StemInit /\ [][StemMix]_vars

(***************************************************************************)
(* The choice of the branch of one raindrop trigger called on its own: for *)
(* nBranches live branches, a group split count, the grouping flag, the    *)
(* rain centre and spread, and the two draws u1, u2 of nextRand().         *)
(***************************************************************************)
RainBranches == 5
\* values of nextRand() in [0, 1), in units of 1 / U
RainDraws == {0, 1, U \div 100, U \div 4, U \div 2, (3 * U) \div 4, U - 1}
RainInit ==
  /\ Constructed
  /\ probe \in
       {[kind |-> "rain", nBranches |-> n, groupSplitCount |-> s,
         groupEnabledBlock |-> g, rainCenter |-> c, rainSpread |-> w,
         u1 |-> u1, u2 |-> u2, calls |-> 0, idx |-> 0] :
          n \in 1 .. RainBranches, s \in 0 .. RainBranches, g \in BOOLEAN,
          c \in {0, U \div 2, U}, w \in {0, (4 * U) \div 10, U},
          u1 \in RainDraws, u2 \in RainDraws}
RainTrigger ==
  /\ probe.kind = "rain"
  /\ probe.calls = 0
  /\ probe' = [probe EXCEPT
                 !.calls = 1,
                 !.idx = RainIndex(probe, probe, probe.u1, probe.u2)]
  /\ UNCHANGED processorVars
RainSpec == RainInit /\ [][RainTrigger]_vars

(***************************************************************************)
(* The countdown of one raindrop limb called on its own, sample after      *)
(* sample: a trigger has just stored the drawn inter-arrival count in      *)
(* rainNextSamples[li]; every other limb is far from its trigger.  since   *)
(* counts the samples processed after the one of that trigger.             *)
(***************************************************************************)
MaxCount == 3
CountInit ==
  /\ Constructed
  /\ probe \in
       {[kind |-> "countdown", li |-> li, rainLimbs |-> n, enabled |-> e,
         nbranches |-> nb, drawn |-> N, next |-> N, since |-> 0,
         fired |-> FALSE, touched |-> FALSE] :
          li \in 0 .. (MAX_LIMBS - 1), n \in {1, 5, 10}, e \in BOOLEAN,
          nb \in {0, MAX_BRANCHES}, N \in 1 .. MaxCount}
CountSample ==
  /\ probe.kind = "countdown"
  /\ ~probe.fired
  /\ probe.since <= probe.drawn
  /\ \E p \in {[DefaultParameters EXCEPT
                   !.rainEnabled = IF probe.enabled THEN U ELSE 0,
                   !.nbranches = probe.nbranches * U,
                   !.rainLimbs = probe.rainLimbs * U]} :
     \E rain \in {RainSample(p, BlockLocals(p, 25 * U, 25 * U), rngState,
                              rainEnv,
                              [l \in 0 .. (MAX_LIMBS - 1) |->
                                 IF l = probe.li THEN probe.next
                                 ELSE sampleRate])} :
       probe' = [probe EXCEPT
                   !.since = @ + 1,
                   !.next = rain.rainNextSamples[probe.li],
                   !.touched = rain.rainNextSamples[probe.li] # probe.next,
                   !.fired = \E h \in rain.hits : h[1] = probe.li]
  /\ UNCHANGED processorVars
CountSpec == CountInit /\ [][CountSample]_vars
\* the raindrop generator seen through both probes
RainLoopSpec ==
  (RainInit \/ CountInit) /\ [][RainTrigger \/ CountSample]_vars

(***************************************************************************)
(* The frequency smoother of one branch called on its own, sample after    *)
(* sample, with the element type of smoothFreqHz.  smoothToward computes   *)
(* current + (target - current) * alpha in double precision and the        *)
(* assignment to the Float32Array rounds the result to the nearest float32 *)
(* (ties to even).  Frequencies are integers in units of 2^-17 Hz, the     *)
(* float32 spacing between 64 and 128 Hz, so every float32 from 64 Hz up   *)
(* is represented exactly.                                                 *)
(***************************************************************************)
\* units per Hz
Hz32 == 2 ^ 17
\* the spacing of the float32 numbers around x >= 64 Hz
RECURSIVE Ulp32(_)
Ulp32(x) == IF x < 128 * Hz32 THEN 1 ELSE 2 * Ulp32(x \div 2)
\* smoothFreqHz[b] = smoothToward(smoothFreqHz[b], target, alphaFreq): the
\* exact sum is base + n / (U / alphaFreq), rounded to a multiple of the
\* spacing u, a tie to the even multiple
SmoothFloat32(current, target) ==
  LET inv == U \div alphaFreq
      Rounded(lower, u, r, M) ==
        IF 2 * r > M \/ (2 * r = M /\ (lower \div u) % 2 = 1)
        THEN lower + u ELSE lower
      Spaced(base, n, u) ==
        Rounded(base + (n \div (inv * u)) * u, u, n % (inv * u), inv * u)
      Exact(base, n) == Spaced(base, n, Ulp32(base + n \div inv))
  IN  IF current = target THEN current
      ELSE Exact((current \div 1024) * 1024,
                 inv * (current % 1024) + (target - current))
\* smoothed frequency before and target after a setBranchParams, in Hz
SmoothCases ==
  {<<879, 880>>, <<881, 880>>, <<100, 101>>, <<101, 100>>, <<127, 129>>,
   <<16000, 16001>>}
SmoothInit ==
  /\ Constructed
  /\ probe \in
       {[kind |-> "smoothToward", start |-> c[1] * Hz32,
         target |-> c[2] * Hz32, prev |-> c[1] * Hz32,
         current |-> c[1] * Hz32] : c \in SmoothCases}
\* one sample of the branch loop for the branch
SmoothSample ==
  /\ probe.kind = "smoothToward"
  /\ probe' = [probe EXCEPT
                 !.prev = probe.current,
                 !.current = SmoothFloat32(probe.current, probe.target)]
  /\ UNCHANGED processorVars
SmoothSpec == SmoothInit /\ [][SmoothSample]_vars

(***************************************************************************)
(* The engine from the state it is in after running in silence with the    *)
(* LFO in sample-and-hold mode until the LFO phase is within one block of  *)
(* its first wrap: the generator has drawn once per sample (the noise      *)
(* sample, scaled by a noise level of 0), nothing else has moved.  The     *)
(* host then turns on noise and rain, so that a block draws the            *)
(* sample-and-hold value, noise samples, raindrop branches and raindrop    *)
(* intervals.                                                              *)
(***************************************************************************)
LfoSilent ==
  [DefaultParameters EXCEPT !.lfoEnabled = U, !.lfoRate = 10 * U,
                            !.lfoWave = 3 * U, !.noiseLevel = 0]
\* lfoRateBlock / sampleRate, the phase added per sample
LfoStep == RDiv(BlockLocals(LfoSilent, 25 * U, 25 * U).lfoRateBlock * U,
                sampleRate)
\* the samples of the whole blocks before the block of the first wrap
WarmSamples == (((PhaseOne - 1) \div LfoStep) \div Frames) * Frames
\* rngState after n draws from the state x: the first half of the draws,
\* then the rest from the state they leave
RECURSIVE IterRng(_, _)
IterRng(x, n) ==
  IF n = 0 THEN x
  ELSE IF n = 1 THEN XorShift32(x)
  ELSE CHOOSE r \in {IterRng(y, n - (n \div 2)) :
                       y \in {IterRng(x, n \div 2)}} : TRUE
Warmed ==
  Assembled([lfoPhase |-> WarmSamples * LfoStep,
             rngState |-> IterRng(RngSeed, WarmSamples),
             cachedEffFreq |-> 440 * U, cachedEffDecay |-> 400 * U,
             parameters |-> LfoSilent, ex |-> ExciterLowPass(LfoSilent),
             hpf_a |-> ExciterHighPass(LfoSilent), frame |-> Frames,
             loc |-> [IdleLoc EXCEPT !.live = TRUE, !.effFreq = 440 * U,
                                     !.effDecay = 400 * U],
             groupLog |-> {[on |-> FALSE, count |-> 0]}, op |-> "end"])
WarmInit == Warmed /\ probe = NoProbe
WarmCommands ==
  { SetBranchParamsMsg(0, Params(880 * U, Undef, Undef, U \div 2)),
    SetScaleMsg("minor", "E") }
WarmParameterSets ==
  { [LfoSilent EXCEPT !.noiseLevel = U \div 2, !.rainEnabled = U,
                      !.rainRate = 40 * U],
    [LfoSilent EXCEPT !.noiseLevel = U \div 2, !.noiseType = 3 * U,
                      !.rainEnabled = U, !.groupEnabled = U,
                      !.groupSplit = U, !.quantize = U] }
WarmNext ==
  \/ \E m \in WarmCommands : Post(m)
  \/ Deliver
  \/ \E p \in WarmParameterSets : BeginBlock(p)
  \/ Sample
  \/ EndBlock
WarmSpec == WarmInit /\ [][WarmNext]_vars

\* the running engine with changes of the band-pass Q of either path and of
\* the number of live branches from block to block
BandParameterSets ==
  { [LfoSilent EXCEPT !.noiseLevel = U \div 2,
                      !.exciterBandQNoise = 80 * U, !.nbranches = U],
    [LfoSilent EXCEPT !.noiseLevel = U \div 2,
                      !.exciterBandQNoise = 80 * U],
    [LfoSilent EXCEPT !.noiseLevel = U \div 2, !.rainEnabled = U,
                      !.exciterBandQRain = 10 * U] }
BandNext ==
  \/ \E m \in WarmCommands : Post(m)
  \/ Deliver
  \/ \E p \in BandParameterSets : BeginBlock(p)
  \/ Sample
  \/ EndBlock
BandSpec == WarmInit /\ [][BandNext]_vars

\* the engine driven to both ends of the frequency clamp, with quantization
\* off, on without a scale and on with a scale
EdgeCommands ==
  { SetScaleMsg("minor", "C"),
    SetBranchParamsMsg(0, Params(20 * U, Undef, Undef, Undef)) }
EdgeParameterSets ==
  { [DefaultParameters EXCEPT !.quantize = U, !.freqScale = U \div 4,
                              !.octaves = -(4 * U)],
    [DefaultParameters EXCEPT !.quantize = U, !.freqScale = 4 * U,
                              !.octaves = 4 * U],
    [DefaultParameters EXCEPT !.freqScale = 4 * U, !.octaves = 4 * U] }
EdgeSpec ==
  Init /\ [][\/ \E m \in EdgeCommands : Post(m)
             \/ Deliver
             \/ \E p \in EdgeParameterSets : BeginBlock(p)
             \/ Sample
             \/ EndBlock]_vars

(***************************************************************************)
(* Properties.                                                             *)
(***************************************************************************)
\* a finite number within [-1, 1]
InUnit(x) == ~IsNaN(x) /\ -U <= x /\ x <= U
\* |x - y| <= eps, as the comparison of two numbers gives it
Near(x, y, eps) == ~IsNaN(x) /\ ~IsNaN(y) /\ Abs(x - y) <= eps
\* this step is a run of the message handler on the message Handled
Handles == Len(port') < Len(port)
Handled == Head(port).msg
\* this step is one iteration of the sample loop
Samples == pc = "block" /\ frame' = frame + 1

\* C1: in every reachable state every stored resonator history value (the
\* 2-pole y1, y2 and the complex real and imaginary part, of the noise path
\* and of the rain path of every branch) lies in [-1, 1].
C1_ResonatorStateBounded ==
  \A b \in Branches : \A h \in {resN[b], resR[b]} :
    InUnit(h.two_y1) /\ InUnit(h.two_y2) /\ InUnit(h.c_ry1) /\ InUnit(h.c_iy1)

\* C2: at a sample of a live branch the resonator coefficients are
\* recomputed only if the effective frequency or decay is more than 0.1
\* away from the cached value, and after the sample both are within 0.1 of
\* the cached values.
C2_CachesInSync ==
  last.op = "sample" =>
    \A b \in Branches :
      loc[b].live =>
        /\ loc[b].recomputed => (loc[b].freqChanged \/ loc[b].decayChanged)
        /\ Near(loc[b].effFreq, cachedEffFreq[b], Eps)
        /\ Near(loc[b].effDecay, cachedEffDecay[b], Eps)

\* C3: no step taken while a process() call is on the stack, nor the step
\* that enters or leaves it, changes a branch target or the scale, and no
\* message leaves the port during the call: a command that arrives during
\* a block waits, and every sample of the block sees the same targets and
\* scale.
C3_AppliedBetweenBlocks ==
  [][(pc = "block" \/ pc' = "block") =>
       /\ UNCHANGED <<targetVars, scaleVars>>
       /\ Len(port') >= Len(port)
       /\ \A n \in 1 .. Len(port) : port'[n] = port[n]]_vars
\* the last sample of a block has run while a bulk command posted during
\* this block waits in the port
C3_Witness ==
  /\ pc = "block"
  /\ last.op = "sample"
  /\ frame = Frames
  /\ port # <<>>
  /\ Head(port).during = nBlocks
  /\ Head(port).msg.type = "setAllBranches"

\* C4: a run of the message handler, whatever the command, leaves the
\* resonator histories of both paths, the bandpass delay lines of both
\* paths, the exciter high-pass and low-pass state and rainEnv unchanged.
C4_HandlerKeepsFilterState ==
  [][Handles => UNCHANGED <<resN, resR, bpN, bpR, ex, hpf, rainEnv>>]_vars
\* a command has been handled while every one of these held a signal
C4_Witness ==
  /\ last.op = "deliver"
  /\ \E b \in Branches :
       /\ resN[b].two_y1 # 0 /\ resN[b].c_ry1 # 0
       /\ resR[b].two_y1 # 0
       /\ bpN[b].y1 # 0 /\ bpR[b].y1 # 0
       /\ rainEnv[b] # 0
  /\ ex.y1 # 0
  /\ hpf.y1 # 0

\* C5: setBranchParams with a valid index changes, of all targets, only
\* those of its branch whose field is supplied as a number: a supplied
\* field is stored (clamped), an omitted field keeps its target, and every
\* other branch keeps all four targets.
C5_PartialUpdate ==
  [][(Handles /\ Handled.type = "setBranchParams"
        /\ Handled.index \in Branches /\ Handled.hasParams) =>
       LET i == Handled.index
           f == Handled.params
       IN  \A b \in Branches :
             /\ branchFreqHz'[b] =
                  IF b = i /\ f.freq # Undef THEN f.freq ELSE branchFreqHz[b]
             /\ branchDecayMs'[b] =
                  IF b = i /\ f.decay # Undef THEN FMax(U, f.decay)
                  ELSE branchDecayMs[b]
             /\ branchAmp'[b] =
                  IF b = i /\ f.amp # Undef THEN FMax(0, f.amp)
                  ELSE branchAmp[b]
             /\ branchPan'[b] =
                  IF b = i /\ f.pan # Undef THEN clamp(f.pan, -U, U)
                  ELSE branchPan[b]]_vars
\* a command carrying only freq has been handled for a branch whose other
\* targets were not the defaults: freq is new, the others are kept
C5_Witness ==
  /\ last.op = "deliver"
  /\ last.msg.type = "setBranchParams"
  /\ last.msg.index = 0
  /\ last.msg.params.decay = Undef
  /\ branchFreqHz[0] = 880 * U
  /\ branchDecayMs[0] = 1000 * U
  /\ branchAmp[0] = U \div 2
  /\ branchPan[0] = -U

\* C6: setAllBranches(arr) replaces the targets of every branch
\* i < min(length(arr), MAX_BRANCHES) and makes its smoothed frequency,
\* amplitude and pan equal to them at once, leaves every other branch as it
\* was, and the first sample then processed for such a branch while it is
\* live recomputes its resonator coefficients and both bandpass sets.
C6_BulkSnapsAndRecomputes ==
  [][/\ (Handles /\ Handled.type = "setAllBranches") =>
          \A i \in Branches :
            IF i < Len(Handled.branches)
            THEN LET f == Handled.branches[i + 1]
                 IN  /\ branchFreqHz'[i] =
                          IF f.freq # Undef THEN f.freq ELSE 440 * U
                     /\ branchDecayMs'[i] =
                          IF f.decay # Undef THEN FMax(U, f.decay)
                          ELSE 400 * U
                     /\ branchAmp'[i] =
                          IF f.amp # Undef THEN FMax(0, f.amp)
                          ELSE U \div 50
                     /\ branchPan'[i] =
                          IF f.pan # Undef THEN clamp(f.pan, -U, U) ELSE 0
                     /\ smoothFreqHz'[i] = branchFreqHz'[i]
                     /\ smoothAmp'[i] = branchAmp'[i]
                     /\ smoothPan'[i] = branchPan'[i]
            ELSE /\ branchFreqHz'[i] = branchFreqHz[i]
                 /\ branchDecayMs'[i] = branchDecayMs[i]
                 /\ branchAmp'[i] = branchAmp[i]
                 /\ branchPan'[i] = branchPan[i]
                 /\ smoothFreqHz'[i] = smoothFreqHz[i]
                 /\ smoothAmp'[i] = smoothAmp[i]
                 /\ smoothPan'[i] = smoothPan[i]
     /\ Samples =>
          \A b \in snapped :
            b < blk.nBranches =>
              loc'[b].recomputed /\ loc'[b].newN /\ loc'[b].newR]_vars

C8_TargetsInRange ==
  \A b \in Branches :
    /\ FGe(branchDecayMs[b], U)
    /\ FGe(branchAmp[b], 0)
    /\ InUnit(branchPan[b])

\* C9 as stated: the smoothed frequency, amplitude and pan change only in
\* an iteration of the sample loop; no command changes any of them.
C9_OnlySmootherWrites ==
  [][(smoothFreqHz' # smoothFreqHz \/ smoothAmp' # smoothAmp
        \/ smoothPan' # smoothPan) => Samples]_vars
\* C9: the smoothed frequency, amplitude and pan of a branch change only
\* in an iteration of the sample loop in which the branch is live, in a
\* setAllBranches whose array reaches the branch (all three), and in a
\* setBranchParams for the branch that carries a numeric pan (the smoothed
\* pan only).
C9_SmoothedWriters ==
  [][\A b \in Branches :
       LET live == Samples /\ b < blk.nBranches
           bulk == /\ Handles
                   /\ Handled.type = "setAllBranches"
                   /\ b < Len(Handled.branches)
           byPan == /\ Handles
                    /\ Handled.type = "setBranchParams"
                    /\ Handled.index = b
                    /\ Handled.params.pan # Undef
       IN  /\ smoothFreqHz'[b] # smoothFreqHz[b] => (live \/ bulk)
           /\ smoothAmp'[b] # smoothAmp[b] => (live \/ bulk)
           /\ smoothPan'[b] # smoothPan[b] => (live \/ bulk \/ byPan)]_vars
\* a bulk command has just set the smoothed values of branch 0 and a
\* single-branch command has before set the smoothed pan of the last branch
C9_Witness ==
  /\ last.op = "deliver"
  /\ last.msg.type = "setAllBranches"
  /\ smoothFreqHz[0] = 220 * U
  /\ smoothAmp[0] = U \div 2
  /\ smoothPan[0] = -U
  /\ smoothPan[MAX_BRANCHES - 1] = U

\* C10: with grouping on and split s, a live branch below s is fed a rain
\* excitation of exactly 0 and a live branch at or above s a noise
\* excitation of exactly 0; with grouping off every live branch is fed
\* both; and when every block so far had grouping on with the same split,
\* the rain path of a branch below the split and the noise path of a
\* branch at or above it have produced nothing.
C10_GroupRouting ==
  /\ last.op = "sample" =>
       \A b \in Branches :
         loc[b].live =>
           IF loc[b].grouped
           THEN /\ b < loc[b].split => loc[b].rainIn = 0
                /\ b >= loc[b].split => loc[b].noiseIn = 0
           ELSE /\ loc[b].noiseIn = loc[b].exciterNoise
                /\ loc[b].rainIn = loc[b].rainInput
  /\ \A g \in groupLog :
       (groupLog = {g} /\ g.on) =>
         \A b \in Branches :
           /\ b < g.count =>
                /\ resR[b] = ZeroHistory
                /\ bpR[b].y1 = 0 /\ bpR[b].y2 = 0
                /\ loc[b].sumR = 0 /\ loc[b].vR = 0
           /\ b >= g.count =>
                /\ resN[b] = ZeroHistory
                /\ bpN[b].y1 = 0 /\ bpN[b].y2 = 0
                /\ loc[b].sumN = 0 /\ loc[b].vN = 0

\* the semitone n has a pitch class of the probe's set
Allowed(n) == InSeq(n % 12, probe.pitchClasses)

\* C11: quantizeToScale applied to its own result returns it unchanged;
\* the result is the frequency of a semitone with an allowed pitch class,
\* and the frequency of a semitone with an allowed pitch class is returned
\* as it is.
C11_QuantizeIdempotent ==
  probe.kind = "quantizeToScale" =>
    /\ probe.calls >= 1 =>
         /\ Allowed(MidiRound(probe.once))
         /\ probe.once = SemiFreq(MidiRound(probe.once))
         /\ (Allowed(MidiRound(probe.freqHz))
               /\ probe.freqHz = SemiFreq(MidiRound(probe.freqHz)))
              => probe.once = probe.freqHz
    /\ probe.calls = 2 => probe.twice = probe.once
\* both calls are done for a frequency whose semitone was not allowed, so
\* that the first call moved it
C11_Witness ==
  /\ probe.kind = "quantizeToScale"
  /\ probe.calls = 2
  /\ ~Allowed(MidiRound(probe.freqHz))
  /\ probe.once # probe.freqHz
  /\ probe.twice = probe.once

\* C12: the result is the frequency of the allowed semitone nearest to the
\* rounded semitone of the input, the upper one of two equally near; A#4
\* in C major gives B4, A4 in C major gives A4.
C12_NearestAllowed ==
  (probe.kind = "quantizeToScale" /\ probe.calls >= 1) =>
    LET r == MidiRound(probe.freqHz)
        Range == (r - 12) .. (r + 12)
    IN  /\ \E n \in Range :
             /\ probe.once = SemiFreq(n)
             /\ Allowed(n)
             /\ \A m \in Range :
                  Allowed(m) =>
                    \/ Abs(m - r) > Abs(n - r)
                    \/ (Abs(m - r) = Abs(n - r) /\ m <= n)
        /\ (probe.name = "major" /\ probe.root = "C") =>
             /\ probe.freqHz = SemiTab[2] => probe.once = SemiTab[3]
             /\ probe.freqHz = SemiTab[1] => probe.once = SemiTab[1]
\* A#4 in C major has been quantized: A4 and B4 are both one semitone away
C12_Witness ==
  /\ probe.kind = "quantizeToScale"
  /\ probe.calls >= 1
  /\ probe.name = "major" /\ probe.root = "C"
  /\ probe.freqHz = SemiTab[2]
  /\ Allowed(70 - 1) /\ Allowed(70 + 1) /\ ~Allowed(70)
  /\ probe.once = SemiTab[3]

\* clamp(freqHz * freqScale * 2^octaves + freqCenter, 25, 0.45 * sampleRate)
\* with the parameters p and the block values k
UnquantizedOf(freqHz, p, k) ==
  clamp(FAdd(Pow2Mul(FMul(freqHz, k.freqScale), Trunc(Or(p.octaves, 0))),
             k.freqCenter),
        25 * U, Nyq45)
\* the unquantized effective frequency of branch b at the sample just
\* processed
Unquantized(b) == UnquantizedOf(smoothFreqHz[b], parameters, blk)
\* branch b went through the branch loop of the sample just processed
Processed(b) == pc = "block" /\ frame > 0 /\ loc[b].live
\* the handler has just run on a setScale command
ScaleSet == last.op = "deliver" /\ last.msg.type = "setScale"

\* C13: setScale never ends with an exception; after a setScale with a
\* missing, 'off' or unknown scale name the pitch-class set is null; after
\* one with a known name it is a strictly ascending sequence of classes in
\* 0..11 whose elements are the scale's intervals plus the root's class
\* modulo 12; and while quantize is on with a null or empty set the
\* effective frequency of every live branch is the 12-TET semitone
\* frequency nearest to the clamped frequency.
C13_ScaleFallback ==
  /\ ~thrown
  /\ ScaleSet =>
       IF last.msg.name \in {"", "off"} \/ last.msg.name \notin ScaleNames
       THEN scalePitchClasses = NullPcs
       ELSE LET pcs == scalePitchClasses.pcs
                root == noteNameToClass(IF last.msg.root = "" THEN "A"
                                        ELSE last.msg.root)
                base == scales(last.msg.name)
            IN  /\ ~scalePitchClasses.null
                /\ \A i \in 1 .. Len(pcs) : pcs[i] \in 0 .. 11
                /\ \A i \in 1 .. (Len(pcs) - 1) : pcs[i] < pcs[i + 1]
                /\ {pcs[i] : i \in 1 .. Len(pcs)}
                     = {(root + base[i]) % 12 : i \in 1 .. Len(base)}
  /\ \A b \in Branches :
       (/\ Processed(b)
        /\ parameters.quantize >= U \div 2
        /\ (scalePitchClasses.null \/ Len(scalePitchClasses.pcs) = 0))
         => loc[b].effFreq = quantize12TET(Unquantized(b))

\* C14: a setScale command and the start of a block with any value of
\* quantize leave every target and smoothed frequency as they are; an
\* iteration of the sample loop leaves the targets as they are and moves
\* the smoothed frequency of a live branch by smoothToward alone, whatever
\* quantize is; and in an iteration with quantize off the effective
\* frequency of every live branch is the unquantized clamped frequency.
C14_QuantizeOnlyEffective ==
  [][/\ (Handles /\ Handled.type = "setScale")
          => UNCHANGED <<branchFreqHz, smoothFreqHz>>
     /\ (pc = "idle" /\ pc' = "block")
          => UNCHANGED <<branchFreqHz, smoothFreqHz>>
     /\ Samples =>
          /\ branchFreqHz' = branchFreqHz
          /\ \A b \in Branches :
               smoothFreqHz'[b] =
                 IF b < blk.nBranches
                 THEN smoothToward(smoothFreqHz[b], branchFreqHz[b],
                                   alphaFreq)
                 ELSE smoothFreqHz[b]
          /\ parameters.quantize < U \div 2 =>
               \A b \in Branches :
                 b < blk.nBranches =>
                   loc'[b].effFreq =
                     UnquantizedOf(smoothFreqHz'[b], parameters, blk)]_vars
\* the first sample of a block with quantize off that follows a block
\* with quantize on and a scale set: the last branch, which no command of
\* the host retunes, has a new effective frequency, the unquantized one
C14_Witness ==
  /\ Processed(MAX_BRANCHES - 1)
  /\ nBlocks = 2
  /\ frame = 1
  /\ parameters.quantize < U \div 2
  /\ ~scalePitchClasses.null
  /\ loc[MAX_BRANCHES - 1].freqChanged
  /\ loc[MAX_BRANCHES - 1].effFreq = Unquantized(MAX_BRANCHES - 1)

\* f[0] + ... + f[n - 1], added in the order of the branch loop
RECURSIVE Total(_, _)
Total(f, n) == IF n <= 0 THEN 0 ELSE FAdd(Total(f, n - 1), f[n - 1])
\* Total(f, n) / n
MeanOf(f, n) ==
  IF IsNaN(Total(f, n)) THEN NaN
  ELSE RDiv(Total(f, n), IF n > 0 THEN n ELSE 1)
\* the crossfaded resonator output of a path of branch b, times the
\* smoothed amplitude, times a pan gain
Wet(res, gain) ==
  [b \in Branches |->
     FMul(FMul(FAdd(FMul(U - smoothMix, res[b].two_y1),
                    FMul(smoothMix, res[b].c_ry1)),
               smoothAmp[b]),
          gain[b])]

\* C15: the mode of a block is the monitorExciter value of its process()
\* call, the same at every sample of the block.  After each sample of a
\* Monitor block the left and the right sample of the noise bus both equal
\* the mean over the live branches of the noise-path bandpass output, and
\* those of the rain bus the mean of the rain-path bandpass output; after
\* each sample of a Synthesis block the four samples are the sums over the
\* live branches of the path's crossfaded resonator output times the
\* smoothed amplitude times the left or right pan gain.
C15_OutputModes ==
  (pc = "block" /\ frame > 0) =>
    /\ blk.monitorExciterBlock = (parameters.monitorExciter >= U \div 2)
    /\ IF parameters.monitorExciter >= U \div 2
       THEN /\ out.out0L = MeanOf([b \in Branches |-> bpN[b].y1],
                                  blk.nBranches)
            /\ out.out0R = out.out0L
            /\ out.out1L = MeanOf([b \in Branches |-> bpR[b].y1],
                                  blk.nBranches)
            /\ out.out1R = out.out1L
       ELSE /\ out.out0L = Total(Wet(resN, leftPanGain), blk.nBranches)
            /\ out.out0R = Total(Wet(resN, rightPanGain), blk.nBranches)
            /\ out.out1L = Total(Wet(resR, leftPanGain), blk.nBranches)
            /\ out.out1R = Total(Wet(resR, rightPanGain), blk.nBranches)
\* a Synthesis sample with sound on the rain bus, panned off centre, of
\* two live branches whose two resonators differ
C15_Witness ==
  /\ pc = "block"
  /\ frame = Frames
  /\ parameters.monitorExciter < U \div 2
  /\ blk.nBranches > 1
  /\ out.out1L # 0
  /\ out.out1L # out.out1R
  /\ \E b \in Branches : resR[b].c_ry1 # 0 /\ resR[b].two_y1 # resR[b].c_ry1

\* the sum of f over the set S of branches
RECURSIVE SetSum(_, _)
SetSum(f, S) ==
  IF S = {} THEN 0
  ELSE LET b == CHOOSE x \in S : TRUE IN f[b] + SetSum(f, S \ {b})
\* the rain-path value of branch b before panning
StemVal(b) == RDiv(probe.sumR[b] * probe.amp[b], U)
\* the live branches of the stem probe
StemLive == {b \in StemIndex : b < probe.nBranches}

\* C16: after the stem accumulation of a sample, stem k (k = 0 .. 4)
\* holds the sum of sumR * amp over the live branches b with b mod 5 = k,
\* every live branch belongs to exactly one of the five stems, and the five
\* stems add up to the sum over all live branches.
C16_StemRouting ==
  (probe.kind = "stems" /\ probe.calls = 1) =>
    /\ \A k \in 0 .. 4 :
         probe.out2[k + 1]
           = SetSum([b \in StemIndex |-> StemVal(b)],
                    {b \in StemLive : b % 5 = k})
    /\ \A b \in StemLive :
         Cardinality({k \in 0 .. 4 : b % 5 = k}) = 1
    /\ SetSum([k \in 0 .. 4 |-> probe.out2[k + 1]], 0 .. 4)
         = SetSum([b \in StemIndex |-> StemVal(b)], StemLive)
\* seven live branches: stems 0 and 1 each hold the sum of two branches
C16_Witness ==
  /\ probe.kind = "stems"
  /\ probe.calls = 1
  /\ probe.nBranches = 7
  /\ probe.out2[1] = StemVal(0) + StemVal(5)
  /\ probe.out2[2] = StemVal(1) + StemVal(6)
  /\ probe.out2[3] = StemVal(2)
  /\ StemVal(6) # 0

\* C17: the smoothed frequency never leaves the interval between its
\* value at the step and the target, its distance to the target never
\* grows, and it does not come to rest (a value that a further sample
\* leaves as it is) farther than 0.01 Hz from the target.
C17_SmoothConverges ==
  probe.kind = "smoothToward" =>
    /\ (probe.start <= probe.current /\ probe.current <= probe.target)
         \/ (probe.target <= probe.current /\ probe.current <= probe.start)
    /\ Abs(probe.target - probe.current) <= Abs(probe.target - probe.prev)
    /\ SmoothFloat32(probe.current, probe.target) = probe.current
         => Abs(probe.target - probe.current) <= Hz32 \div 100

\* the draws of the sample about to be processed, in the order of the
\* code: the sample-and-hold value when the LFO phase wraps in that mode,
\* the noise sample, then two draws for the branch and one for the
\* interval of every limb that is due
Draws ==
  LET hold == /\ blk.lfoEnabledBlock
              /\ blk.lfoWaveBlock = 3
              /\ lfoPhase + RDiv(blk.lfoRateBlock * U, sampleRate) >= PhaseOne
      due == IF blk.rainEnabledBlock /\ blk.nBranches > 0
             THEN {li \in 0 .. (RainLocals(parameters).limbs - 1) :
                     rainNextSamples[li] <= 0}
             ELSE {}
  IN  [hold |-> hold, due |-> due, noise |-> (IF hold THEN 1 ELSE 0) + 1,
       count |-> (IF hold THEN 1 ELSE 0) + 1 + 3 * Cardinality(due)]
\* the number of the draw before the three draws of the due limb li
Before(li) ==
  Draws.noise + 3 * Cardinality({l \in Draws.due : l < li})
\* the float in [0,1) of the n-th draw of the sample
Drawn(n) == RandOf(IterRng(rngState, n))

\* C18: the generator state changes in an iteration of the sample loop
\* only, where it advances by exactly one xorshift32 step per stochastic
\* choice made, and every choice is the function of the generator state
\* at its draw that the code computes: the sample-and-hold value is the
\* first draw (signed), the noise sample the next (signed, times the noise
\* level and the LFO amplitude), the branch of the raindrop of a due limb
\* comes from the limb's first two draws and its next inter-arrival time
\* from the third.  No step has another source of chance, so the run is a
\* function of the sample rate, the parameter blocks and the commands.
C18_Deterministic ==
  [][IF Samples
     THEN /\ rngState' = IterRng(rngState, Draws.count)
          /\ Draws.hold => lfoSH' = SignedOf(XorShift32(rngState))
          /\ (blk.lfoWaveBlock = 3 /\ Trunc(parameters.noiseType) = 3) =>
               prevWhite'
                 = FMul(SignedOf(IterRng(rngState, Draws.noise)),
                        FMul(parameters.noiseLevel,
                             (U - blk.lfoDepthBlock)
                               + FMul(blk.lfoDepthBlock,
                                      (lfoSH' + U) \div 2)))
          /\ \A li \in Draws.due :
               rainNextSamples'[li]
                 = RainInterval(RainLocals(parameters),
                                Drawn(Before(li) + 3))
          /\ \A b \in Branches :
               rainEnv'[b] > rainEnv[b] =>
                 \E li \in Draws.due :
                   b = RainIndex(RainLocals(parameters), blk,
                                 Drawn(Before(li) + 1),
                                 Drawn(Before(li) + 2))
     ELSE rngState' = rngState]_vars
\* a sample has drawn the sample-and-hold value, another the branches and
\* intervals of raindrops, and the buses carry sound
C18_Witness ==
  /\ pc = "block"
  /\ frame = Frames
  /\ lfoSH # 0
  /\ \E b \in Branches : rainEnv[b] > 0
  /\ \E li \in 0 .. (MAX_LIMBS - 1) : rainNextSamples[li] > 1
  /\ prevWhite # 0

\* C19: every call of process() returns: a call in progress leads to the
\* state after its return statement.  While it runs, the branch loop has
\* at most MAX_BRANCHES iterations, the raindrop loop between 1 and 10,
\* the sample loop at most one per frame, and the scale search of a
\* quantized branch ends within its 13 steps d = 0 .. 12: the semitone it
\* returns is at most 12 away from the rounded one, also when no class of
\* the set is ever found.
C19_ProcessReturns ==
  /\ [](pc = "block" =>
         /\ blk.nBranches \in 0 .. MAX_BRANCHES
         /\ RainLocals(parameters).limbs \in 1 .. 10
         /\ frame \in 0 .. Frames
         /\ \A b \in Branches :
              (/\ Processed(b)
               /\ parameters.quantize >= U \div 2
               /\ ~scalePitchClasses.null
               /\ Len(scalePitchClasses.pcs) > 0)
                => Abs(MidiRound(loc[b].effFreq) - MidiRound(Unquantized(b)))
                     <= 12)
  /\ (pc = "block" ~> (pc = "idle" /\ last.op = "end"))
\* a call of process() has returned after quantizing a live branch with a
\* pitch-class set in which the search finds no class
C19_Witness ==
  /\ pc = "idle"
  /\ last.op = "end"
  /\ nBlocks > 0
  /\ parameters.quantize >= U \div 2
  /\ ~scalePitchClasses.null
  /\ \A i \in 1 .. Len(scalePitchClasses.pcs) :
       scalePitchClasses.pcs[i] \notin 0 .. 11
  /\ \E b \in Branches :
       loc[b].live /\ MidiRound(loc[b].effFreq) = MidiRound(Unquantized(b))

\* C20: with grouping enabled and split index s (the split count limited
\* to nBranches), the branch that receives the impulse of a raindrop
\* trigger lies in the rain-eligible range s <= idx <= nBranches - 1.
C20_RainEligible ==
  (probe.kind = "rain" /\ probe.calls = 1 /\ probe.groupEnabledBlock) =>
    /\ Max(0, Min(probe.nBranches, probe.groupSplitCount)) <= probe.idx
    /\ probe.idx <= probe.nBranches - 1

\* the raindrop triggers of the sample about to be processed that land on
\* branch b
HitsOn(b) ==
  Cardinality({li \in Draws.due :
                 RainIndex(RainLocals(parameters), blk,
                           Drawn(Before(li) + 1), Drawn(Before(li) + 2)) = b})

\* C21: in every iteration of the sample loop the rain envelope of every
\* branch, live or not and with rain enabled or not, is multiplied by the
\* decay factor exp(-1 / (rainDurMs * 0.001 * sampleRate)), after the
\* impulses of the sample's triggers have been added to it.
C21_RainEnvDecays ==
  [][Samples =>
       \A b \in Branches :
         rainEnv'[b] = FMul(rainEnv[b] + HitsOn(b) * U,
                            rainDecay(RainLocals(parameters).rainDurMs))]_vars

\* the resonator coefficients of branch b are those computed from the
\* cached effective frequency and decay
Baked(b) == coef[b] = recomputeCoefficients(cachedEffFreq[b], cachedEffDecay[b])
\* the marker that forces a recomputation
Unbaked(b) == cachedEffFreq[b] = 0 /\ cachedEffDecay[b] = 0

\* C22 as stated: in every reachable state the resonator coefficients of
\* every branch are those computed from cachedEffFreq[b] and
\* cachedEffDecay[b].
C22_CachedIsBaked == \A b \in Branches : Baked(b)
\* C22: for every branch either cachedEffFreq[b] and cachedEffDecay[b] are
\* both 0, the marker the constructor and setAllBranches leave to force a
\* recomputation, or the resonator coefficients are those computed from
\* them; and after a processed sample of a live branch whose effective and
\* cached values are numbers the marker is gone and the cached values are
\* within 0.1 of the effective frequency and decay of that sample.
C22_CachedOrMarked ==
  \A b \in Branches :
    /\ Unbaked(b) \/ Baked(b)
    /\ (/\ Processed(b)
        /\ ~IsNaN(loc[b].effFreq) /\ ~IsNaN(loc[b].effDecay)
        /\ ~IsNaN(cachedEffFreq[b]) /\ ~IsNaN(cachedEffDecay[b]))
         => /\ ~Unbaked(b)
            /\ Abs(loc[b].effFreq - cachedEffFreq[b]) <= Eps
            /\ Abs(loc[b].effDecay - cachedEffDecay[b]) <= Eps
\* a live branch has been retuned to a frequency other than the
\* constructor's and its cache follows, while a branch that is not live
\* still carries the marker with the constructor's coefficients
C22_Witness ==
  /\ Processed(0)
  /\ Baked(0)
  /\ ~IsNaN(cachedEffFreq[0])
  /\ cachedEffFreq[0] \notin {0, 440 * U}
  /\ Unbaked(1)
  /\ ~Baked(1)

\* C23: a limb that is active while rain is enabled, and whose trigger
\* drew an inter-arrival count of N samples, triggers again exactly N
\* processed samples after that trigger; the count drawn is at least 1.
C23_CountdownExact ==
  (probe.kind = "countdown" /\ probe.fired) =>
    /\ probe.drawn >= 1
    /\ probe.since = probe.drawn

\* C24: the branch chosen by a raindrop trigger is a live one, 0 <= idx <=
\* nBranches - 1, for every draw, centre, spread, grouping flag and split;
\* a limb counts down or triggers only if its index is below the limb count
\* limited to 1 .. 10 (and so within the MAX_LIMBS slots), rain is enabled
\* and nBranches is not 0; otherwise its counter keeps its value.
C24_ValidTrigger ==
  /\ (probe.kind = "rain" /\ probe.calls = 1) =>
       probe.idx \in 0 .. (probe.nBranches - 1)
  /\ probe.kind = "countdown" =>
       LET active == /\ probe.li < Max(1, Min(10, probe.rainLimbs))
                     /\ probe.li < MAX_LIMBS
                     /\ probe.enabled
                     /\ probe.nbranches > 0
       IN  /\ (probe.fired \/ probe.touched) => active
           /\ ~active => probe.next = probe.drawn
\* the last of ten limbs has counted down and triggered
C24_Witness ==
  /\ probe.kind = "countdown"
  /\ probe.li = 9
  /\ probe.fired
  /\ probe.since > 1

\* the five band-pass coefficients of a filter record
BandOf(f) == [b0 |-> f.b0, b1 |-> f.b1, b2 |-> f.b2, a1 |-> f.a1, a2 |-> f.a2]
\* the coefficients f were computed with the Q value q, around the
\* frequency last baked or the one of the last sample of branch b
BandHasQ(f, b, q) ==
  \E fc \in {cachedEffFreq[b], loc[b].effFreq} :
    BandOf(f) = recomputeBandpassCoefficients(fc, q)

\* C25: when a block ends, the band-pass coefficients of the noise path of
\* every live branch are those computed with the block's clamped noise Q,
\* and those of the rain path with its clamped rain Q, whatever Q and
\* nBranches were in earlier blocks; and a sample in which the effective
\* frequency of a branch has not changed and only one path's Q has, leaves
\* the coefficients of the other path as they are.
C25_BandQCurrent ==
  [][/\ (pc = "block" /\ pc' = "idle") =>
          \A b \in Branches :
            b < blk.nBranches =>
              /\ BandHasQ(bpN[b], b, blk.bandQNoiseClamped)
              /\ BandHasQ(bpR[b], b, blk.bandQRainClamped)
     /\ Samples =>
          \A b \in Branches :
            (b < blk.nBranches /\ ~loc'[b].freqChanged) =>
              /\ ~blk.bandQRainChanged => BandOf(bpR'[b]) = BandOf(bpR[b])
              /\ ~blk.bandQNoiseChanged => BandOf(bpN'[b]) = BandOf(bpN[b])]_vars

\* C26: the effective frequency from which the resonator coefficients of a
\* branch are recomputed lies within [25 Hz, 0.45 * sampleRate], with
\* quantization off, on with 12-TET rounding, or on with a scale.
C26_BakedInClamp ==
  \A b \in Branches :
    (Processed(b) /\ loc[b].recomputed) =>
      /\ loc[b].effFreq >= 25 * U
      /\ loc[b].effFreq <= Nyq45

\* C27: in every reachable state the smoothed pan of every branch equals
\* its pan target, and no iteration of the sample loop changes a smoothed
\* pan: a pan change is never ramped.
C27_PanNeverRamps ==
  /\ [](\A b \in Branches : smoothPan[b] = branchPan[b])
  /\ [][Samples => smoothPan' = smoothPan]_vars
\* a live branch whose pan was set by a command has been processed
C27_Witness ==
  /\ last.op = "sample"
  /\ \E b \in Branches :
       Processed(b) /\ branchPan[b] = U /\ smoothPan[b] = U

\* C28: in every reachable state the smoothed crossfade lies in [0, 1], and
\* the path values (1 - smoothMix) * two_y1 + smoothMix * c_ry1 of the
\* noise path and of the rain path of every processed branch lie in
\* [-1, 1].
C28_MixInRange ==
  /\ smoothMix \in 0 .. U
  /\ \A b \in Branches :
       Processed(b) =>
         /\ loc[b].sumN \in (-U) .. U
         /\ loc[b].sumR \in (-U) .. U

\* f with the values of the branches that are not live replaced by 0
Masked(f) == [b \in Branches |-> IF b < blk.nBranches THEN f[b] ELSE 0]
\* f[0] + ... over all MAX_BRANCHES branches, divided by nBranches
MaskedMean(f) ==
  IF IsNaN(Total(Masked(f), MAX_BRANCHES)) THEN NaN
  ELSE RDiv(Total(Masked(f), MAX_BRANCHES),
            IF blk.nBranches > 0 THEN blk.nBranches ELSE 1)

\* C29: no step of a process() call changes the state of a branch with an
\* index of nBranches or more: its smoothed frequency, amplitude and pan,
\* its pan gains and the pan they were computed for, its cached effective
\* values, its resonator and band-pass coefficients, the filter histories
\* of both paths and its rain envelope; and the samples written to the
\* buses are what they would be with the values of those branches replaced
\* by 0.
C29_NotLiveUntouched ==
  /\ [][(pc = "block" \/ pc' = "block") =>
          \A b \in Branches :
            b >= blk'.nBranches =>
              /\ smoothFreqHz'[b] = smoothFreqHz[b]
              /\ smoothAmp'[b] = smoothAmp[b]
              /\ smoothPan'[b] = smoothPan[b]
              /\ leftPanGain'[b] = leftPanGain[b]
              /\ rightPanGain'[b] = rightPanGain[b]
              /\ prevPanForGains'[b] = prevPanForGains[b]
              /\ cachedEffFreq'[b] = cachedEffFreq[b]
              /\ cachedEffDecay'[b] = cachedEffDecay[b]
              /\ coef'[b] = coef[b]
              /\ bpN'[b] = bpN[b]
              /\ bpR'[b] = bpR[b]
              /\ resN'[b] = resN[b]
              /\ resR'[b] = resR[b]
              /\ rainEnv'[b] = rainEnv[b]]_vars
  /\ []((pc = "block" /\ frame > 0) =>
         IF blk.monitorExciterBlock
         THEN /\ out.out0L = MaskedMean([b \in Branches |-> bpN[b].y1])
              /\ out.out1L = MaskedMean([b \in Branches |-> bpR[b].y1])
         ELSE /\ out.out0L
                   = Total(Masked(Wet(resN, leftPanGain)), MAX_BRANCHES)
              /\ out.out0R
                   = Total(Masked(Wet(resN, rightPanGain)), MAX_BRANCHES)
              /\ out.out1L
                   = Total(Masked(Wet(resR, leftPanGain)), MAX_BRANCHES)
              /\ out.out1R
                   = Total(Masked(Wet(resR, rightPanGain)), MAX_BRANCHES)
              /\ \A k \in 0 .. 4 :
                   out.out2[k + 1]
                     = Total(Masked([b \in Branches |->
                                      IF b % 5 = k
                                      THEN Wet(resR, [c \in Branches |-> U])[b]
                                      ELSE 0]),
                             MAX_BRANCHES))
\* a block with one live branch has been processed while the branch that
\* is not live holds a rain envelope, a pan set by a command and a rain-path
\* filter that sounded in an earlier block
C29_Witness ==
  /\ pc = "block"
  /\ frame = Frames
  /\ blk.nBranches = 1
  /\ rainEnv[1] > 0
  /\ bpR[1].y1 # 0
  /\ smoothPan[1] # 0

\* the parameters p with the other value of monitorExciter
Flip(p) == [p EXCEPT !.monitorExciter = U - @]
\* the block values k with the other mode
FlipBlock(k) == [k EXCEPT !.monitorExciterBlock = ~@]

\* C30: the internal state after every step of process() is the one the
\* same step yields from the same state with the other value of
\* monitorExciter: the block values and the exciter coefficients at the
\* start of a block, and in every iteration of the sample loop the LFO,
\* noise and generator state, the exciter filters, the rain envelopes and
\* countdowns, the smoothed crossfade and, for every live branch, the
\* smoothed values, pan gains, cached values, coefficients and the filter
\* and resonator histories of both paths.  Commands do not read the flag.
C30_MonitorOnlyOutputs ==
  [][/\ (pc = "idle" /\ pc' = "block") =>
          \E q \in {Flip(parameters')} :
            /\ BlockLocals(q, prevBandQNoise, prevBandQRain) = FlipBlock(blk')
            /\ BandOf(ex') = ExciterLowPass(q)
            /\ hpf'.a = ExciterHighPass(q)
     /\ Samples =>
          \E q \in {Flip(parameters)} : \E k \in {FlipBlock(blk)} :
          \E e \in {ExciterSample(q, k,
                     [lfoPhase |-> lfoPhase, lfoSH |-> lfoSH,
                      rngState |-> rngState, pk |-> pk, brown |-> brown,
                      prevWhite |-> prevWhite, hpf |-> hpf, ex |-> ex])} :
          \E rain \in {RainSample(q, k, e.rngState, rainEnv,
                                   rainNextSamples)} :
          \E mix \in {smoothToward(smoothMix, q.rmix, alphaMix)} :
            /\ lfoPhase' = e.lfoPhase
            /\ lfoSH' = e.lfoSH
            /\ pk' = e.pk
            /\ brown' = e.brown
            /\ prevWhite' = e.prevWhite
            /\ hpf' = e.hpf
            /\ ex' = e.ex
            /\ rngState' = rain.rngState
            /\ rainEnv' = rain.rainEnv
            /\ rainNextSamples' = rain.rainNextSamples
            /\ smoothMix' = mix
            /\ \A b \in Branches :
                 b < k.nBranches =>
                   \E B \in {BranchSample(b, frame, q, k, scalePitchClasses,
                                          e.exciterNoise, rain.rainEnv,
                                          RainLocals(q).rainGain, mix)} :
                     /\ smoothFreqHz'[b] = B.smoothFreqHz
                     /\ smoothAmp'[b] = B.smoothAmp
                     /\ smoothPan'[b] = B.smoothPan
                     /\ prevPanForGains'[b] = B.prevPan
                     /\ leftPanGain'[b] = B.left
                     /\ rightPanGain'[b] = B.right
                     /\ coef'[b] = B.coef
                     /\ cachedEffFreq'[b] = B.cachedEffFreq
                     /\ cachedEffDecay'[b] = B.cachedEffDecay
                     /\ bpN'[b] = B.bpN
                     /\ bpR'[b] = B.bpR
                     /\ resN'[b] = B.resN
                     /\ resR'[b] = B.resR
     /\ (pc = "block" /\ pc' = "idle") =>
          /\ prevBandQNoise' = IF FlipBlock(blk).bandQNoiseChanged
                               THEN FlipBlock(blk).bandQNoiseClamped
                               ELSE prevBandQNoise
          /\ prevBandQRain' = IF FlipBlock(blk).bandQRainChanged
                              THEN FlipBlock(blk).bandQRainClamped
                              ELSE prevBandQRain
     /\ Handles => UNCHANGED <<parameters, blk>>]_vars
\* a Monitor block has ended: the buses carried the band-passed exciter
\* while the filters and resonators of the live branches kept running
C30_Witness ==
  /\ pc = "idle"
  /\ last.op = "end"
  /\ blk.monitorExciterBlock
  /\ out.out0L # 0
  /\ out.out0L = out.out0R
  /\ \E b \in Branches : bpN[b].y1 # 0 /\ bpN[b].x2 # 0
====
